---------------------------- MODULE Spec2Model ----------------------------
(***************************************************************************)
(* Model of the eatery pathfinder's core (src/backend_final/backend.py):   *)
(* the graph store (validate_graph, add_node, add_edge, remove_node,       *)
(* remove_edge, load_graph, save_graph), the two graph searches            *)
(* (ucs_search, a_star_search) and the selector find_optimal_path.         *)
(*                                                                         *)
(* Values.  Coordinates and edge weights stored in a graph are JSON        *)
(* numbers, modelled as integers; the arguments of add_node and add_edge,  *)
(* and the values in the data that load_graph reads and save_graph is      *)
(* handed, are a number, a numeric string (which float() also accepts) or  *)
(* something float() rejects.  Messages are written without the node ids   *)
(* that the code puts into some of them.                                   *)
(* Distances: the nodes of the search models lie on one great circle (the  *)
(* equator, or one meridian) at whole degrees, where the haversine formula *)
(* gives exactly the difference of the angles times EARTH_RADIUS*pi/180;   *)
(* edge weights and heuristic values are counted in that unit (one degree  *)
(* of arc, about 111195 m), so that both are integers.                     *)
(***************************************************************************)
EXTENDS Integers, Sequences, FiniteSets, TLC

\* ------------------------------------------------------------------ bounds
\* Largest edge weight of the generated graphs (in arc units).
MaxWeight == 3
\* Largest longitude (whole degrees) of a generated node.
MaxPos == 3
\* Largest score of a generated scores dict.
MaxScore == 2
\* Largest rank of a factor in the generated rank mappings.
MaxRank == 3

VARIABLES
    graph,              \* the in-memory graph: [nodes, edges]
    start, goal,        \* arguments of the running search
    algorithm,          \* "ucs" or "astar": the search being run
    pc,                 \* position of the running call
    frontier,           \* the heap: a set of entries [f, g, path]
    visited,            \* finalized nodes
    nodes_expanded,
    max_frontier_size,
    ret,                \* the tuple the last search call returned
    results,            \* direct calls: what ucs_search and a_star_search returned
    scores,             \* find_optimal_path: the scores dict, in its order
    sorted_eateries,    \* find_optimal_path: the candidates, best first
    idx,                \* find_optimal_path: the candidate being tried
    fop,                \* find_optimal_path: the returned dict
    last,               \* graph store: the last call, its arguments and result
    file,               \* GRAPH_FILE: what the file holds
    io,                 \* load_graph / save_graph: the last call and its result
    afile,              \* EATERIES_FILE: what the file holds
    resp,               \* request handlers: the last request and its response
    inodes,             \* file system: the content of each file created so far
    live,               \* file system: the file that the name GRAPH_FILE names
    temp,               \* file system: the file that the name GRAPH_FILE.tmp
                        \* names, 0 when there is none
    proc,               \* concurrent requests: where each one is, what it holds
    hours_str,          \* is_open: the hours value of the eatery
    now,                \* is_open: the time of day of the call
    opened,             \* is_open: what the call returned
    rank_dict,          \* convert_ranks_to_weights: the rank mapping given
    weights,            \* convert_ranks_to_weights: what the call returned
    eateries,           \* update_eatery: the attributes dict the calls are made on
    last_update,        \* update_eatery: the last call, its arguments and message
    top,                \* get_top_eateries: what the call returned
    compared            \* compare_algorithms: what the call returned

searchVars == <<start, goal, algorithm, pc, frontier, visited, nodes_expanded,
                max_frontier_size, ret, results>>
fopVars == <<scores, sorted_eateries, idx, fop>>
storeVars == <<last>>
persistVars == <<file, io>>
apiVars == <<afile, resp>>
fsVars == <<inodes, live, temp, proc>>
fnVars == <<hours_str, now, opened, rank_dict, weights, eateries, last_update, top, compared>>
laterVars == <<apiVars, fsVars, fnVars>>
vars == <<graph, searchVars, fopVars, storeVars, persistVars, laterVars>>

\* ------------------------------------------------------------- node ids
\* Python compares the node ids of two paths as strings; IdOrder lists the
\* ids of the model in that order.
IdOrder == <<"A", "B", "C", "D", "E", "F", "G", "Z">>

Rank(id) == CHOOSE i \in 1..Len(IdOrder) : IdOrder[i] = id

Abs(x) == IF x < 0 THEN -x ELSE x

SetMin(S) == CHOOSE x \in S : \A y \in S : x <= y

SetMax(S) == CHOOSE x \in S : \A y \in S : y <= x

\* ------------------------------------------------------------ geography
\* haversine(lat1, lon1, lat2, lon2), in arc units, for two points on one
\* meridian or both on the equator (the shorter arc when the longitudes
\* differ by more than 180 degrees).
haversine(lat1, lon1, lat2, lon2) ==
    CASE lon1 = lon2 -> Abs(lat2 - lat1)
      [] lon1 # lon2 /\ lat1 = 0 /\ lat2 = 0 ->
            LET d == Abs(lon2 - lon1) IN IF d <= 180 THEN d ELSE 360 - d

\* ---------------------------------------------------------------- graph
\* graph["edges"].get(node, {}): the adjacency of a node, empty when the
\* node has no entry.
Adj(g, n) == IF n \in DOMAIN g.edges THEN g.edges[n] ELSE << >>

Neighbors(g, n) == DOMAIN Adj(g, n)

\* check_connectivity: breadth-first traversal along the adjacency entries.
RECURSIVE Closure(_, _)
Closure(g, S) ==
    LET T == S \cup UNION {Neighbors(g, n) : n \in S}
    IN IF T = S THEN S ELSE Closure(g, T)

check_connectivity(g, s, t) ==
    IF s = t THEN TRUE
    ELSE IF s \notin DOMAIN g.nodes \/ t \notin DOMAIN g.nodes THEN FALSE
    ELSE t \in Closure(g, {s})

\* validate_path: every consecutive pair is an adjacency entry.
validate_path(g, path) ==
    IF Len(path) < 2 THEN TRUE
    ELSE \A i \in 2..Len(path) : path[i] \in Neighbors(g, path[i - 1])

\* --------------------------------------------------------------- search
\* A cost of 0.0 where the code has float('inf').
ZeroForInf == [inf |-> FALSE, v |-> 0]

\* float('inf') and finite costs.
Inf == [inf |-> TRUE, v |-> 0]

Fin(n) == [inf |-> FALSE, v |-> n]

\* The returned tuple (cost, path, nodes_expanded, max_frontier_size, error_msg).
Tuple(cost, path, ne, mf, err) ==
    [cost |-> cost, path |-> path, nodes_expanded |-> ne,
     max_frontier_size |-> mf, error |-> err]

NoResult == Tuple(Inf, << >>, 0, 0, "pending")

\* Python's list comparison of two paths: the first differing id decides,
\* a proper prefix is smaller.
PathLess(p, q) ==
    \/ \E i \in 1..Len(p) :
          /\ i <= Len(q)
          /\ \A j \in 1..(i - 1) : p[j] = q[j]
          /\ Rank(p[i]) < Rank(q[i])
    \/ /\ Len(p) < Len(q)
       /\ \A j \in 1..Len(p) : p[j] = q[j]

\* Tuple comparison of two heap entries: (cost, path) in ucs_search, where
\* f = g = cost, and (f_score, g_cost, path) in a_star_search.
EntryLess(e1, e2) ==
    \/ e1.f < e2.f
    \/ e1.f = e2.f /\ e1.g < e2.g
    \/ e1.f = e2.f /\ e1.g = e2.g /\ PathLess(e1.path, e2.path)

\* A queue in place of the heap: the entry with the fewest hops comes first.
HeapPopFewestHops(h) ==
    CHOOSE e \in h : \A o \in h \ {e} :
        \/ Len(e.path) < Len(o.path)
        \/ Len(e.path) = Len(o.path) /\ PathLess(e.path, o.path)

\* heapq.heappop: the smallest entry.
HeapPop(h) == CHOOSE e \in h : \A o \in h \ {e} : EntryLess(e, o)

\* The heuristic in a smaller unit than the weights: twice the distance.
heuristicWrongUnit(g, algo, node, t) ==
    IF algo = "astar"
    THEN 2 * haversine(g.nodes[node][1], g.nodes[node][2], g.nodes[t][1], g.nodes[t][2])
    ELSE 0

\* The heuristic of a_star_search (haversine to the goal); ucs_search has none.
heuristic(g, algo, node, t) ==
    IF algo = "astar"
    THEN haversine(g.nodes[node][1], g.nodes[node][2], g.nodes[t][1], g.nodes[t][2])
    ELSE 0

\* A* that pushes only the neighbours nearer to the goal than the current
\* node.
PushedOnlyNearer(g, algo, e, vis, t) ==
    LET current == e.path[Len(e.path)]
    IN { [f |-> e.g + Adj(g, current)[nb] + heuristic(g, algo, nb, t),
          g |-> e.g + Adj(g, current)[nb],
          path |-> Append(e.path, nb)] :
            nb \in {x \in Neighbors(g, current) \ vis :
                      algo = "astar" =>
                          heuristic(g, algo, x, t) < heuristic(g, algo, current, t)} }

\* The priority without the cost so far: new_f = edge_cost + new_h.
PushedGreedy(g, algo, e, vis, t) ==
    LET current == e.path[Len(e.path)]
    IN { [f |-> Adj(g, current)[nb] + heuristic(g, algo, nb, t),
          g |-> e.g + Adj(g, current)[nb],
          path |-> Append(e.path, nb)] : nb \in Neighbors(g, current) \ vis }

\* Hops counted in place of weights: new_cost = cost + 1.
PushedUnitCost(g, algo, e, vis, t) ==
    LET current == e.path[Len(e.path)]
    IN { [f |-> e.g + 1 + heuristic(g, algo, nb, t),
          g |-> e.g + 1,
          path |-> Append(e.path, nb)] : nb \in Neighbors(g, current) \ vis }

\* Every neighbour pushed, the finalized ones too.
PushedAlsoFinalized(g, algo, e, vis, t) ==
    LET current == e.path[Len(e.path)]
    IN { [f |-> e.g + Adj(g, current)[nb] + heuristic(g, algo, nb, t),
          g |-> e.g + Adj(g, current)[nb],
          path |-> Append(e.path, nb)] : nb \in Neighbors(g, current) }

\* The entries pushed when `e` (ending in current) is expanded.
Pushed(g, algo, e, vis, t) ==
    LET current == e.path[Len(e.path)]
    IN { [f |-> e.g + Adj(g, current)[nb] + heuristic(g, algo, nb, t),
          g |-> e.g + Adj(g, current)[nb],
          path |-> Append(e.path, nb)] : nb \in Neighbors(g, current) \ vis }

Return(r) ==
    /\ ret' = r
    /\ pc' = "returned"

\* ucs_search / a_star_search up to the while loop: the early returns, the
\* connectivity pre-check and the first frontier.
SearchCall ==
    /\ pc = "call"
    /\ UNCHANGED <<graph, start, goal, algorithm, results, fopVars, storeVars, persistVars, laterVars>>
    /\ IF start \notin DOMAIN graph.nodes
       THEN /\ Return(Tuple(Inf, << >>, 0, 0, "Start node not found"))
            /\ UNCHANGED <<frontier, visited, nodes_expanded, max_frontier_size>>
       ELSE IF goal \notin DOMAIN graph.nodes
       THEN /\ Return(Tuple(Inf, << >>, 0, 0, "Goal node not found"))
            /\ UNCHANGED <<frontier, visited, nodes_expanded, max_frontier_size>>
       ELSE IF start = goal
       THEN /\ Return(Tuple(Fin(0), <<start>>, 1, 1, ""))
            /\ UNCHANGED <<frontier, visited, nodes_expanded, max_frontier_size>>
       ELSE IF ~check_connectivity(graph, start, goal)
       THEN /\ Return(Tuple(Inf, << >>, 0, 0, "No path exists from start to goal"))
            /\ UNCHANGED <<frontier, visited, nodes_expanded, max_frontier_size>>
       ELSE /\ frontier' = {[f |-> heuristic(graph, algorithm, start, goal),
                             g |-> 0, path |-> <<start>>]}
            /\ visited' = {}
            /\ nodes_expanded' = 0
            /\ max_frontier_size' = 0
            /\ pc' = "loop"
            /\ UNCHANGED ret

\* One pass through `while frontier:`.  With an empty frontier the loop ends
\* and the search returns "No path exists"; otherwise: pop, skip a finalized
\* node, else finalize it, return at the goal, push the neighbours that are
\* not finalized.
SearchLoop ==
    /\ pc = "loop"
    /\ UNCHANGED <<graph, start, goal, algorithm, results, fopVars, storeVars, persistVars, laterVars>>
    /\ IF frontier = {}
       THEN /\ Return(Tuple(Inf, << >>, nodes_expanded, max_frontier_size, "No path exists"))
            /\ UNCHANGED <<frontier, visited, nodes_expanded, max_frontier_size>>
       ELSE LET mf == IF Cardinality(frontier) > max_frontier_size
                      THEN Cardinality(frontier) ELSE max_frontier_size
                e == HeapPop(frontier)
                current == e.path[Len(e.path)]
            IN /\ max_frontier_size' = mf
               /\ IF current \in visited
                  THEN /\ frontier' = frontier \ {e}
                       /\ UNCHANGED <<visited, nodes_expanded, ret, pc>>
                  ELSE /\ visited' = visited \cup {current}
                       /\ nodes_expanded' = nodes_expanded + 1
                       /\ IF current = goal
                          THEN /\ frontier' = frontier \ {e}
                               /\ IF ~validate_path(graph, e.path)
                                  THEN Return(Tuple(Inf, << >>, nodes_expanded + 1, mf,
                                                    "Invalid path generated"))
                                  ELSE Return(Tuple(Fin(e.g), e.path,
                                                    nodes_expanded + 1, mf, ""))
                          ELSE /\ frontier' = (frontier \ {e}) \cup
                                     Pushed(graph, algorithm, e,
                                            visited \cup {current}, goal)
                               /\ UNCHANGED <<ret, pc>>

\* ------------------------------------------------- direct calls (driver)
\* ucs_search(graph, start, goal) returns; a_star_search is called next on
\* the same arguments.
UcsReturned ==
    /\ pc = "returned"
    /\ algorithm = "ucs"
    /\ results' = [results EXCEPT !.ucs = ret]
    /\ algorithm' = "astar"
    /\ pc' = "call"
    /\ UNCHANGED <<graph, start, goal, frontier, visited, nodes_expanded,
                   max_frontier_size, ret, fopVars, storeVars, persistVars, laterVars>>

AStarReturned ==
    /\ pc = "returned"
    /\ algorithm = "astar"
    /\ results' = [results EXCEPT !.astar = ret]
    /\ pc' = "done"
    /\ UNCHANGED <<graph, start, goal, algorithm, frontier, visited, nodes_expanded,
                   max_frontier_size, ret, fopVars, storeVars, persistVars, laterVars>>

\* ---------------------------------------------------------- graph store
\* An argument as it arrives from the request: a number, a numeric string
\* ("90"), or something float() rejects (None, "abc").
Num(v) == [t |-> "num", v |-> v]

Str(v) == [t |-> "str", v |-> v]

NotANumber == [t |-> "bad", v |-> 0]

\* More values of a request or a file: true / false, a number that is no
\* integer (Real(n) stands for n + 1/2, n >= 0), a string that is no number.
Bool(b) == [t |-> "bool", v |-> IF b THEN 1 ELSE 0]

Real(n) == [t |-> "real", v |-> n]

Text(s) == [t |-> "text", v |-> s]

\* float(x) succeeds / its value (float(True) is 1.0).
FloatOk(x) == x.t \in {"num", "str", "bool"}

Float(x) == x.v

\* A node id that is not a string (7, None), written as a token.
NonStringId == "<7>"

\* The test of the id without the strip(): white space passes as an id.
IdRefusedNoStrip(id) == id = NonStringId \/ id = ""

\* not isinstance(node_id, str) or not node_id.strip(): the ids add_node
\* refuses: no string, the empty string, white space only.
IdRefused(id) == id = NonStringId \/ id \in {"", " "}

EmptyGraph == [nodes |-> << >>, edges |-> << >>]

\* A call's result: the graph as the call leaves it, the message it returns,
\* or the exception it raises.
Outcome(g, msg) == [graph |-> g, msg |-> msg, raised |-> FALSE]

Raised(g, exc) == [graph |-> g, msg |-> exc, raised |-> TRUE]

\* d[k] = v and del d[k] on a dict.
Put(d, k, v) == [x \in DOMAIN d \cup {k} |-> IF x = k THEN v ELSE d[x]]

Del(d, k) == [x \in DOMAIN d \ {k} |-> d[x]]

add_node(g, node_id, lat, lng) ==
    IF IdRefused(node_id)
    THEN Outcome(g, "Node ID must be a non-empty string")
    ELSE IF ~(FloatOk(lat) /\ FloatOk(lng))
    THEN Outcome(g, "Latitude and longitude must be numbers")
    ELSE IF ~(-90 <= Float(lat) /\ Float(lat) <= 90
              /\ -180 <= Float(lng) /\ Float(lng) <= 180)
    THEN Outcome(g, "Invalid coordinates range")
    ELSE IF node_id \in DOMAIN g.nodes
    THEN Outcome(g, "Node already exists")
    ELSE Outcome([nodes |-> Put(g.nodes, node_id, <<Float(lat), Float(lng)>>),
                  edges |-> Put(g.edges, node_id, << >>)],
                 "Node added successfully")

\* graph["edges"][node_a][node_b] = cost raises KeyError when node_a has no
\* entry in edges; the second assignment likewise for node_b, after the first
\* has been made.
add_edge(g, node_a, node_b, cost) ==
    IF node_a \notin DOMAIN g.nodes \/ node_b \notin DOMAIN g.nodes
    THEN Outcome(g, "One or both nodes don't exist")
    ELSE IF node_a = node_b
    THEN Outcome(g, "Cannot create self-edge")
    ELSE IF ~FloatOk(cost)
    THEN Outcome(g, "Cost must be a number")
    ELSE IF Float(cost) <= 0
    THEN Outcome(g, "Cost must be a positive number")
    ELSE IF node_a \notin DOMAIN g.edges
    THEN Raised(g, "KeyError")
    ELSE LET g1 == [g EXCEPT !.edges[node_a] = Put(@, node_b, Float(cost))]
         IN IF node_b \notin DOMAIN g.edges
            THEN Raised(g1, "KeyError")
            ELSE Outcome([g1 EXCEPT !.edges[node_b] = Put(@, node_a, Float(cost))],
                         "Edge added successfully")

\* remove_node without the loop over the other adjacency lists.
remove_nodeNoCascade(g, node_id) ==
    IF node_id \notin DOMAIN g.nodes
    THEN Outcome(g, "Node does not exist")
    ELSE Outcome([nodes |-> Del(g.nodes, node_id), edges |-> Del(g.edges, node_id)],
                 "Node removed successfully")

remove_node(g, node_id) ==
    IF node_id \notin DOMAIN g.nodes
    THEN Outcome(g, "Node does not exist")
    ELSE LET rest == Del(g.edges, node_id)
         IN Outcome([nodes |-> Del(g.nodes, node_id),
                     edges |-> [n \in DOMAIN rest |-> Del(rest[n], node_id)]],
                    "Node removed successfully")

\* remove_edge that deletes only the entry of node_a.
remove_edgeOneWay(g, node_a, node_b) ==
    IF node_a \notin DOMAIN g.nodes \/ node_b \notin DOMAIN g.nodes
    THEN Outcome(g, "One or both nodes don't exist")
    ELSE IF node_a \in DOMAIN g.edges /\ node_b \in DOMAIN g.edges[node_a]
    THEN Outcome([g EXCEPT !.edges[node_a] = Del(@, node_b)],
                 "Edge removed successfully")
    ELSE Outcome(g, "No edge between the nodes")

remove_edge(g, node_a, node_b) ==
    IF node_a \notin DOMAIN g.nodes \/ node_b \notin DOMAIN g.nodes
    THEN Outcome(g, "One or both nodes don't exist")
    ELSE LET ab == node_a \in DOMAIN g.edges /\ node_b \in DOMAIN g.edges[node_a]
             g1 == IF ab THEN [g EXCEPT !.edges[node_a] = Del(@, node_b)] ELSE g
             ba == node_b \in DOMAIN g1.edges /\ node_a \in DOMAIN g1.edges[node_b]
             g2 == IF ba THEN [g1 EXCEPT !.edges[node_b] = Del(@, node_a)] ELSE g1
         IN IF ~(ab \/ ba)
            THEN Outcome(g, "No edge between the nodes")
            ELSE Outcome(g2, "Edge removed successfully")

\* The record of a call: its name and arguments, what it returned or raised,
\* the graph before it (pre) and, for a remove_edge(a, b) that follows an
\* add_edge(a, b, cost) that was not refused, the graph before that add_edge
\* (base, with paired = TRUE).
Call(op, id, b, x, y, r, pre, paired, base) ==
    [op |-> op, id |-> id, b |-> b, x |-> x, y |-> y, msg |-> r.msg,
     raised |-> r.raised, pre |-> pre, paired |-> paired, base |-> base]

NoCall == Call("none", "", "", Num(0), Num(0), Outcome(EmptyGraph, ""),
               EmptyGraph, FALSE, EmptyGraph)

\* The variable of the graph store, when no call has been made.
StoreIdle == last = NoCall

\* The arguments the calls are made with.
Names == {"A", "B", "C"}

IdArgs == Names \cup {"", " ", NonStringId}

\* <<lat, lng>> as given: the corners of the accepted range, as numbers and
\* as numeric strings, a step outside each side, and a value float() rejects.
CoordArgs == {<<Num(-90), Str(180)>>, <<Str(90), Num(-180)>>,
              <<Num(-91), Num(0)>>, <<Num(91), Num(0)>>,
              <<Num(0), Num(-181)>>, <<Num(0), Str(181)>>,
              <<NotANumber, Num(0)>>, <<Num(0), NotANumber>>}

CostArgs == {Num(0), Num(1), Str(1), NotANumber}

Refusals == {"Node ID must be a non-empty string",
             "Latitude and longitude must be numbers", "Invalid coordinates range",
             "Node already exists", "One or both nodes don't exist",
             "Cannot create self-edge", "Cost must be a number",
             "Cost must be a positive number", "Node does not exist",
             "No edge between the nodes"}

AddNode ==
    /\ pc = "store"
    /\ \E id \in IdArgs, c \in CoordArgs :
          LET r == add_node(graph, id, c[1], c[2])
          IN /\ graph' = r.graph
             /\ last' = Call("add_node", id, "", c[1], c[2], r, graph, FALSE, EmptyGraph)
    /\ UNCHANGED <<searchVars, fopVars, persistVars, laterVars>>

AddEdge ==
    /\ pc = "store"
    /\ \E a \in Names, b \in Names, cost \in CostArgs :
          LET r == add_edge(graph, a, b, cost)
          IN /\ graph' = r.graph
             /\ last' = Call("add_edge", a, b, cost, Num(0), r, graph, FALSE, EmptyGraph)
    /\ UNCHANGED <<searchVars, fopVars, persistVars, laterVars>>

RemoveNode ==
    /\ pc = "store"
    /\ \E id \in Names :
          LET r == remove_node(graph, id)
          IN /\ graph' = r.graph
             /\ last' = Call("remove_node", id, "", Num(0), Num(0), r, graph,
                             FALSE, EmptyGraph)
    /\ UNCHANGED <<searchVars, fopVars, persistVars, laterVars>>

RemoveEdge ==
    /\ pc = "store"
    /\ \E a \in Names, b \in Names :
          LET r == remove_edge(graph, a, b)
              paired == /\ last.op = "add_edge"
                        /\ last.id = a /\ last.b = b
                        /\ last.msg \notin Refusals
          IN /\ graph' = r.graph
             /\ last' = Call("remove_edge", a, b, Num(0), Num(0), r, graph, paired,
                             IF paired THEN last.pre ELSE EmptyGraph)
    /\ UNCHANGED <<searchVars, fopVars, persistVars, laterVars>>

\* ---------------------------------------------------------- persistence
\* What GRAPH_FILE can hold, and what save_graph can be handed.  shape tells
\* what load_data makes of it: "missing" (no file), "invalid json", "list"
\* and "number" (JSON that is no object; "error list": a list that holds the
\* string "error"), "no nodes" / "no edges" (an object
\* without that key, or with something else than an object under it), "graph"
\* (an object with both).  err: the object has a key "error".  A coordinate
\* list is a sequence of the values as written (a number, a numeric string,
\* something float() rejects), a weight likewise.
Data(shape, err, nodes, edges) ==
    [shape |-> shape, err |-> err, nodes |-> nodes, edges |-> edges]

NoData(shape) == Data(shape, FALSE, << >>, << >>)

\* A graph in memory, as the data save_graph and validate_graph are handed.
GraphData(g) ==
    Data("graph", FALSE,
         [n \in DOMAIN g.nodes |-> <<Num(g.nodes[n][1]), Num(g.nodes[n][2])>>],
         [n \in DOMAIN g.edges |-> [m \in DOMAIN g.edges[n] |-> Num(g.edges[n][m])]])

\* min(S) in the order in which a dict lists its keys.
FirstOf(S) == CHOOSE n \in S : \A m \in S : Rank(n) <= Rank(m)

\* The loop over the nodes: what it returns at this node, "" to carry on.
CoordsFault(coords) ==
    IF Len(coords) # 2 THEN "Invalid coordinates for node"
    ELSE IF ~(FloatOk(coords[1]) /\ FloatOk(coords[2]))
    THEN "Non-numeric coordinates for node"
    ELSE IF ~(-90 <= Float(coords[1]) /\ Float(coords[1]) <= 90
              /\ -180 <= Float(coords[2]) /\ Float(coords[2]) <= 180)
    THEN "Invalid coordinates range for node"
    ELSE ""

\* The loop over the edge references, at one key of edges.
RefFault(d, node) ==
    IF node \notin DOMAIN d.nodes THEN "Edge references missing node"
    ELSE IF DOMAIN d.edges[node] \ DOMAIN d.nodes # {}
    THEN "Edge references missing neighbor"
    ELSE ""

\* The weight loop without the comparison of the weight with zero.
WeightFaultAnySign(node, neighbor, weight) ==
    IF neighbor = node THEN "Self-edge detected for node"
    ELSE IF ~FloatOk(weight) THEN "Non-numeric weight between nodes"
    ELSE ""

\* The loop over the weights of one adjacency list, at one neighbor.
WeightFault(node, neighbor, weight) ==
    IF neighbor = node THEN "Self-edge detected for node"
    ELSE IF ~FloatOk(weight) THEN "Non-numeric weight between nodes"
    ELSE IF Float(weight) <= 0 THEN "Non-positive weight between nodes"
    ELSE ""

validate_graph(d) ==
    LET badNodes == {n \in DOMAIN d.nodes : CoordsFault(d.nodes[n]) # ""}
        badRefs == {n \in DOMAIN d.edges : RefFault(d, n) # ""}
        BadIn(n) == {m \in DOMAIN d.edges[n] : WeightFault(n, m, d.edges[n][m]) # ""}
        badLists == {n \in DOMAIN d.edges : BadIn(n) # {}}
    IN IF d.shape \notin {"no nodes", "no edges", "graph"}
       THEN [valid |-> FALSE, msg |-> "Graph must be a dictionary"]
       ELSE IF d.shape = "no nodes"
       THEN [valid |-> FALSE, msg |-> "Missing or invalid 'nodes' dictionary"]
       ELSE IF d.shape = "no edges"
       THEN [valid |-> FALSE, msg |-> "Missing or invalid 'edges' dictionary"]
       ELSE IF badNodes # {}
       THEN [valid |-> FALSE, msg |-> CoordsFault(d.nodes[FirstOf(badNodes)])]
       ELSE IF badRefs # {}
       THEN [valid |-> FALSE, msg |-> RefFault(d, FirstOf(badRefs))]
       ELSE IF badLists # {}
       THEN LET n == FirstOf(badLists)
                m == FirstOf(BadIn(n))
            IN [valid |-> FALSE, msg |-> WeightFault(n, m, d.edges[n][m])]
       ELSE [valid |-> TRUE, msg |-> ""]

\* The record of a load_graph or save_graph call: the data it read or was
\* handed, whether it returned the graph / True (ok), or else where the error
\* dict came from (error) and its message, or the exception raised.
Io(op, d, ok, error, msg) ==
    [op |-> op, data |-> d, ok |-> ok, error |-> error, msg |-> msg]

NoIo == Io("none", NoData("missing"), FALSE, "", "")

PersistIdle == file = NoData("missing") /\ io = NoIo

\* load_data returns an error dict for a missing or unreadable file;
\* '"error" in data' is a key test on an object, an element test on a list,
\* and raises TypeError on a number.
load_graph(f) ==
    IF f.shape = "missing" THEN Io("load_graph", f, FALSE, "load_data", "File not found")
    ELSE IF f.shape = "invalid json"
    THEN Io("load_graph", f, FALSE, "load_data", "Invalid JSON")
    ELSE IF f.shape = "number"
    THEN Io("load_graph", f, FALSE, "raised", "TypeError")
    ELSE IF f.shape = "error list"
    THEN Io("load_graph", f, FALSE, "error element", "")
    ELSE IF f.shape # "list" /\ f.err
    THEN Io("load_graph", f, FALSE, "error key", "")
    ELSE LET v == validate_graph(f)
         IN IF ~v.valid
            THEN Io("load_graph", f, FALSE, "Graph validation failed", v.msg)
            ELSE Io("load_graph", f, TRUE, "", "")

\* save_data either replaces the file by the data and returns True, or fails
\* at one of its steps and returns an error dict, the file as it was.
save_graph(d, written) ==
    LET v == validate_graph(d)
    IN IF ~v.valid
       THEN Io("save_graph", d, FALSE, "Cannot save invalid graph", v.msg)
       ELSE IF ~written
       THEN Io("save_graph", d, FALSE, "save_data", "Error saving")
       ELSE Io("save_graph", d, TRUE, "", "")

\* The data: two nodes A and B, the two directions of the edge between them
\* each absent or with a weight, and at most one of these changes.
Absent == [t |-> "none", v |-> 0]

EdgePairs == {<<Absent, Absent>>, <<Num(1), Num(1)>>, <<Num(1), Absent>>,
              <<Num(1), Num(2)>>, <<Str(1), Str(1)>>}

Changes == {"none", "lat", "lng", "length", "text coordinate", "string coordinates",
            "dangling key", "dangling neighbor", "self-edge", "zero", "negative",
            "text weight", "no entry", "error key"}

List(n, w) == IF w = Absent THEN << >> ELSE [x \in {n} |-> w]

Changed(ab, ba, change) ==
    LET a == CASE change = "lat" -> <<Num(91), Num(0)>>
               [] change = "lng" -> <<Num(0), Num(-181)>>
               [] change = "length" -> <<Num(0)>>
               [] change = "text coordinate" -> <<Num(0), NotANumber>>
               [] change = "string coordinates" -> <<Str(-90), Str(180)>>
               [] OTHER -> <<Num(0), Num(0)>>
        toB == CASE change = "zero" -> Num(0)
                 [] change = "negative" -> Num(-1)
                 [] change = "text weight" -> NotANumber
                 [] OTHER -> ab
        listA == CASE change = "dangling neighbor" -> Put(List("B", toB), "Z", Num(1))
                   [] change = "self-edge" -> Put(List("B", toB), "A", Num(1))
                   [] OTHER -> List("B", toB)
        listB == List("A", ba)
        both == [n \in {"A", "B"} |-> IF n = "A" THEN listA ELSE listB]
        edges == CASE change = "dangling key" -> Put(both, "Z", << >>)
                   [] change = "no entry" -> Del(both, "B")
                   [] OTHER -> both
    IN Data("graph", change = "error key",
            [n \in {"A", "B"} |-> IF n = "A" THEN a ELSE <<Num(0), Num(1)>>], edges)

SaveArgs ==
    {Changed(p[1], p[2], c) : p \in EdgePairs, c \in Changes}
        \cup {NoData("list"), NoData("number"), NoData("no nodes"), NoData("no edges")}

Files == SaveArgs \cup {NoData("missing"), NoData("invalid json")}

LoadGraph ==
    /\ pc = "persist"
    /\ io' = load_graph(file)
    /\ UNCHANGED <<graph, file, searchVars, fopVars, storeVars, laterVars>>

SaveGraph ==
    /\ pc = "persist"
    /\ \E d \in SaveArgs, written \in BOOLEAN :
          /\ io' = save_graph(d, written)
          /\ file' = IF io'.ok THEN d ELSE file
    /\ UNCHANGED <<graph, searchVars, fopVars, storeVars, laterVars>>

\* ------------------------------------------------------------- selector
NoFop == [error |-> "pending", goal |-> "", goal_score |-> 0, path |-> << >>,
          cost |-> Inf, algorithm |-> "", raised |-> FALSE]

\* The variables of find_optimal_path, when it is not running.
FopIdle ==
    /\ scores = << >>
    /\ sorted_eateries = << >>
    /\ idx = 0
    /\ fop = NoFop

\* sorted(..., reverse=True) without the reverse: worst first.
SortedAscending(sc) ==
    LET place(i) == 1 + Cardinality({j \in 1..Len(sc) :
                        \/ sc[j].score < sc[i].score
                        \/ sc[j].score = sc[i].score /\ j < i})
    IN [k \in 1..Len(sc) |-> sc[CHOOSE i \in 1..Len(sc) : place(i) = k]]

\* sorted(scores.items(), key=lambda x: x[1], reverse=True): by descending
\* score; the sort is stable, equal scores keep the order of the dict.
Sorted(sc) ==
    LET place(i) == 1 + Cardinality({j \in 1..Len(sc) :
                        \/ sc[j].score > sc[i].score
                        \/ sc[j].score = sc[i].score /\ j < i})
    IN [k \in 1..Len(sc) |-> sc[CHOOSE i \in 1..Len(sc) : place(i) = k]]

FopError(msg) == [NoFop EXCEPT !.error = msg]

\* find_optimal_path from the start-node check to the sorted candidates.
FopStart ==
    /\ pc = "fop_start"
    /\ UNCHANGED <<graph, start, goal, algorithm, frontier, visited, nodes_expanded,
                   max_frontier_size, ret, results, scores, storeVars, persistVars, laterVars>>
    /\ IF start \notin DOMAIN graph.nodes
       THEN /\ fop' = FopError("Start node not found")
            /\ pc' = "fop_done"
            /\ UNCHANGED <<sorted_eateries, idx>>
       ELSE IF scores = << >>
       THEN /\ fop' = FopError("No valid eateries found")
            /\ pc' = "fop_done"
            /\ UNCHANGED <<sorted_eateries, idx>>
       ELSE /\ sorted_eateries' = Sorted(scores)
            /\ idx' = 1
            /\ pc' = "fop_loop"
            /\ UNCHANGED fop

\* The head of `for eatery_id, score in sorted_eateries`: the next candidate
\* becomes the goal of a search, or the loop is over.
FopTry ==
    /\ pc = "fop_loop"
    /\ UNCHANGED <<graph, start, algorithm, frontier, visited, nodes_expanded,
                   max_frontier_size, ret, results, scores, sorted_eateries, idx,
                   storeVars, persistVars, laterVars>>
    /\ IF idx > Len(sorted_eateries)
       THEN /\ fop' = FopError("No reachable eateries found among top candidates")
            /\ pc' = "fop_done"
            /\ UNCHANGED goal
       ELSE IF algorithm \notin {"ucs", "astar"}
       THEN /\ fop' = FopError("Invalid algorithm")
            /\ pc' = "fop_done"
            /\ UNCHANGED goal
       ELSE /\ goal' = sorted_eateries[idx].id
            /\ pc' = "call"
            /\ UNCHANGED fop

\* A loop that tries the same candidate again after a failure.
FopAfterSameCandidate ==
    /\ pc = "returned"
    /\ UNCHANGED <<graph, start, goal, algorithm, frontier, visited, nodes_expanded,
                   max_frontier_size, ret, results, scores, sorted_eateries,
                   storeVars, persistVars, laterVars>>
    /\ IF ret.error = "" /\ ret.path # << >>
       THEN /\ fop' = [error |-> "", goal |-> sorted_eateries[idx].id,
                       goal_score |-> sorted_eateries[idx].score,
                       path |-> ret.path, cost |-> ret.cost,
                       algorithm |-> algorithm, raised |-> FALSE]
            /\ pc' = "fop_done"
            /\ UNCHANGED idx
       ELSE /\ pc' = "fop_loop"
            /\ UNCHANGED <<fop, idx>>

\* The search returned: a path ends find_optimal_path, a failure moves on to
\* the next candidate.
FopAfter ==
    /\ pc = "returned"
    /\ UNCHANGED <<graph, start, goal, algorithm, frontier, visited, nodes_expanded,
                   max_frontier_size, ret, results, scores, sorted_eateries,
                   storeVars, persistVars, laterVars>>
    /\ IF ret.error = "" /\ ret.path # << >>
       THEN /\ fop' = [error |-> "", goal |-> sorted_eateries[idx].id,
                       goal_score |-> sorted_eateries[idx].score,
                       path |-> ret.path, cost |-> ret.cost,
                       algorithm |-> algorithm, raised |-> FALSE]
            /\ pc' = "fop_done"
            /\ UNCHANGED idx
       ELSE /\ idx' = idx + 1
            /\ pc' = "fop_loop"
            /\ UNCHANGED fop

\* ------------------------------------------------------- eatery attributes
\* str.lower() on the strings used here; every other one is in lower case.
LowerCase == [Error |-> "error", YES |-> "yes", True |-> "true", Y |-> "y"]

Lower(s) == IF s \in DOMAIN LowerCase THEN LowerCase[s] ELSE s

\* A record of the attributes mapping: a dict of key -> value, or what a file
\* may hold in its place.
Rec(items) == [dict |-> TRUE, items |-> items]

NotADict == [dict |-> FALSE, items |-> << >>]

\* The attributes file and what save_attributes is handed; shape as for the
\* graph file, "attributes" for an object.
AttrData(shape, recs) == [shape |-> shape, recs |-> recs]

\* A number in half units, to compare integers and n + 1/2.
Twice(x) == IF x.t = "real" THEN 2 * x.v + 1 ELSE 2 * x.v

\* float(value) as update_eatery stores it.
FloatValue(x) == IF x.t = "real" THEN x ELSE Num(x.v)

\* int(value): of an integer, a string of digits, a bool; a number with a
\* fraction is cut (int(3.5) = 3); anything else raises.
IntOk(x) == x.t \in {"num", "str", "bool", "real"}

IntValue(x) == x.v

AmenityKeys == {"power_outlet", "halal_certified", "wifi", "aircon"}

\* The 1/0 an amenity flag becomes.
Flag(value) ==
    IF value.t = "bool" THEN value.v
    ELSE IF value.t = "num" THEN (IF value.v # 0 THEN 1 ELSE 0)
    ELSE IF value.t = "str" THEN (IF value.v = 1 THEN 1 ELSE 0)
    ELSE IF value.t = "text"
    THEN (IF Lower(value.v) \in {"true", "yes", "1", "y", "t"} THEN 1 ELSE 0)
    ELSE 0

\* One turn of the loop of update_eatery: the message it returns with, or ""
\* and the value it stores.
Checked(key, value) ==
    IF key = "rating"
    THEN IF ~(value.t = "real" \/ FloatOk(value))
         THEN [msg |-> "Invalid rating value", value |-> value]
         ELSE IF ~(0 <= Twice(value) /\ Twice(value) <= 10)
         THEN [msg |-> "Rating must be between 0-5", value |-> value]
         ELSE [msg |-> "", value |-> FloatValue(value)]
    ELSE IF key = "price"
    THEN IF ~IntOk(value)
         THEN [msg |-> "Invalid price level", value |-> value]
         ELSE IF IntValue(value) < 0
         THEN [msg |-> "Price level must be non-negative", value |-> value]
         ELSE [msg |-> "", value |-> Num(IntValue(value))]
    ELSE IF key \in AmenityKeys
    THEN [msg |-> "", value |-> Num(Flag(value))]
    ELSE [msg |-> "", value |-> value]

\* The loop over new_attrs.items() from item i on: the record as the loop
\* leaves it, and the message of the return that ends it ("" at the end).
RECURSIVE Merged(_, _, _)
Merged(rec, items, i) ==
    IF i > Len(items) THEN [rec |-> rec, msg |-> ""]
    ELSE LET c == Checked(items[i][1], items[i][2])
         IN IF c.msg # "" THEN [rec |-> rec, msg |-> c.msg]
            ELSE Merged(Put(rec, items[i][1], c.value), items, i + 1)

\* new_attrs is [dict, items]: the items of the dict in its order, or no
\* dict at all.
update_eatery(attributes, eatery_id, new_attrs) ==
    IF ~new_attrs.dict
    THEN [attributes |-> attributes, msg |-> "Attributes must be a dictionary"]
    ELSE LET attrs0 == IF eatery_id \in DOMAIN attributes THEN attributes
                       ELSE Put(attributes, eatery_id, << >>)
             m == Merged(attrs0[eatery_id], new_attrs.items, 1)
         IN [attributes |-> Put(attrs0, eatery_id, m.rec),
             msg |-> IF m.msg # "" THEN m.msg ELSE "Eatery updated successfully"]

\* remove_eatery without the test for an absent eatery.
remove_eateryAnyId(attributes, eatery_id) ==
    [attributes |-> Del(attributes, eatery_id), msg |-> "Eatery removed successfully"]

remove_eatery(attributes, eatery_id) ==
    IF eatery_id \notin DOMAIN attributes
    THEN [attributes |-> attributes, msg |-> "Eatery does not exist"]
    ELSE [attributes |-> Del(attributes, eatery_id),
          msg |-> "Eatery removed successfully"]

\* The loop of validate_attributes at one record.
RecFault(rec) ==
    IF ~rec.dict THEN "Attributes for the eatery must be a dictionary"
    ELSE IF "rating" \in DOMAIN rec.items
            /\ ~(rec.items["rating"].t = "real" \/ FloatOk(rec.items["rating"]))
    THEN "Invalid rating for the eatery"
    ELSE IF "rating" \in DOMAIN rec.items
            /\ ~(0 <= Twice(rec.items["rating"]) /\ Twice(rec.items["rating"]) <= 10)
    THEN "Rating for the eatery must be between 0-5"
    ELSE IF "price" \in DOMAIN rec.items /\ ~IntOk(rec.items["price"])
    THEN "Invalid price level for the eatery"
    ELSE IF "price" \in DOMAIN rec.items /\ IntValue(rec.items["price"]) < 0
    THEN "Price level for the eatery must be non-negative"
    ELSE ""

\* The eatery ids, in the order in which the mapping lists them.
EateryOrder == <<"A", "Error", "error">>

EateryIds == {EateryOrder[i] : i \in 1..Len(EateryOrder)}

FirstEatery(S) ==
    EateryOrder[SetMin({i \in 1..Len(EateryOrder) : EateryOrder[i] \in S})]

validate_attributes(d) ==
    LET bad == {e \in DOMAIN d.recs : RecFault(d.recs[e]) # ""}
    IN IF d.shape # "attributes"
       THEN [valid |-> FALSE, msg |-> "Attributes must be a dictionary"]
       ELSE IF bad # {}
       THEN [valid |-> FALSE, msg |-> RecFault(d.recs[FirstEatery(bad)])]
       ELSE [valid |-> TRUE, msg |-> ""]

\* load_data and the key test '"error" in data' as in load_graph; the keys
\* of the attributes object are the eatery ids.
load_attributes(f) ==
    IF f.shape = "missing"
    THEN Io("load_attributes", f, FALSE, "load_data", "File not found")
    ELSE IF f.shape = "invalid json"
    THEN Io("load_attributes", f, FALSE, "load_data", "Invalid JSON")
    ELSE IF f.shape = "number"
    THEN Io("load_attributes", f, FALSE, "raised", "TypeError")
    ELSE IF f.shape = "error list"
    THEN Io("load_attributes", f, FALSE, "error element", "")
    ELSE IF f.shape = "attributes" /\ "error" \in DOMAIN f.recs
    THEN Io("load_attributes", f, FALSE, "error key", "")
    ELSE LET v == validate_attributes(f)
         IN IF ~v.valid
            THEN Io("load_attributes", f, FALSE, "Attributes validation failed", v.msg)
            ELSE Io("load_attributes", f, TRUE, "", "")

save_attributes(d, written) ==
    LET v == validate_attributes(d)
    IN IF ~v.valid
       THEN Io("save_attributes", d, FALSE, "Cannot save invalid attributes", v.msg)
       ELSE IF ~written
       THEN Io("save_attributes", d, FALSE, "save_data", "Error saving")
       ELSE Io("save_attributes", d, TRUE, "", "")

\* The attributes mapping in memory (eatery id -> key -> value), as the data
\* save_attributes is handed, and back from what load_attributes returned.
AttrsData(attributes) ==
    AttrData("attributes", [e \in DOMAIN attributes |-> Rec(attributes[e])])

AttrsOf(d) == [e \in DOMAIN d.recs |-> d.recs[e].items]

\* The graph in memory that load_graph returned (the files of the request
\* handlers hold numbers only).
GraphOf(d) ==
    [nodes |-> [n \in DOMAIN d.nodes |-> <<Float(d.nodes[n][1]), Float(d.nodes[n][2])>>],
     edges |-> [n \in DOMAIN d.edges |-> [m \in DOMAIN d.edges[n] |-> Float(d.edges[n][m])]]]

\* ------------------------------------------------------- request handlers
\* The messages into which the mutation functions put the ids they were
\* given; the others are fixed texts, none of which contains "error".
WithIds == {"Node already exists", "Node added successfully",
            "Edge added successfully", "Node does not exist",
            "Node removed successfully", "No edge between the nodes",
            "Edge removed successfully", "Eatery updated successfully",
            "Eatery does not exist", "Eatery removed successfully"}

\* "error" in s.lower(), for the ids used here.
ContainsError(s) == Lower(s) \in {"error"}

\* "error" in msg.lower(), for the message msg made with the ids given.
ErrorIn(msg, ids) == msg \in WithIds /\ \E i \in ids : ContainsError(i)

\* The messages with which the attribute functions refuse.
AttrRefusals == {"Attributes must be a dictionary", "Invalid rating value",
                 "Rating must be between 0-5", "Invalid price level",
                 "Price level must be non-negative", "Eatery does not exist"}

\* The record of a request: the handler and its arguments; the status of the
\* response; whether the mutation function was called, its message, whether
\* it raised, the mapping before (pre) and after it (post); whether save was
\* called and whether it replaced the file.
Response(handler, id, b, status, called, msg, raised, pre, post, savecalled, saved) ==
    [handler |-> handler, id |-> id, b |-> b, status |-> status, called |-> called,
     msg |-> msg, raised |-> raised, pre |-> pre, post |-> post,
     savecalled |-> savecalled, saved |-> saved]

NoResponse == Response("none", "", "", 0, FALSE, "", FALSE, EmptyGraph, EmptyGraph,
                       FALSE, FALSE)

ApiIdle == afile = AttrData("missing", << >>) /\ resp = NoResponse

\* The body of a request: JSON with the fields the handler requires, or not.
Bodies == {"ok", "invalid json", "missing fields"}

\* validate_json: the body of the request is no JSON, or lacks a field.
BadBody(handler) ==
    /\ \E body \in Bodies : body # "ok"
    /\ resp' = Response(handler, "", "", 400, FALSE, "", FALSE, EmptyGraph, EmptyGraph,
                        FALSE, FALSE)
    /\ UNCHANGED <<file, afile>>

\* A handler of the graph: load_graph, the mutation (r is what it gives on
\* the graph loaded), the test of its message, save_graph.  id, b: the ids
\* the message is made with; refused: the
\* status of the response when the message contains "error".
GraphRequest(handler, id, b, r, refused, done, written) ==
    LET l == load_graph(file)
        g == GraphOf(file)
    IN /\ UNCHANGED afile
       /\ IF ~l.ok
          THEN /\ resp' = Response(handler, id, b, 500, FALSE, "", l.error = "raised",
                                   EmptyGraph, EmptyGraph, FALSE, FALSE)
               /\ UNCHANGED file
          ELSE IF r.raised
          THEN /\ resp' = Response(handler, id, b, 500, TRUE, r.msg, TRUE, g, r.graph,
                                   FALSE, FALSE)
               /\ UNCHANGED file
          ELSE IF ErrorIn(r.msg, {id, b})
          THEN /\ resp' = Response(handler, id, b, refused, TRUE, r.msg, FALSE, g,
                                   r.graph, FALSE, FALSE)
               /\ UNCHANGED file
          ELSE LET s == save_graph(GraphData(r.graph), written)
               IN /\ resp' = Response(handler, id, b, IF s.ok THEN done ELSE 500,
                                      TRUE, r.msg, FALSE, g, r.graph, TRUE, s.ok)
                  /\ file' = IF s.ok THEN GraphData(r.graph) ELSE file

\* The same for a handler of the attributes.
AttrRequest(handler, id, r, refused, done, written) ==
    LET l == load_attributes(afile)
        a == AttrsOf(afile)
    IN /\ UNCHANGED file
       /\ IF ~l.ok
          THEN /\ resp' = Response(handler, id, "", 500, FALSE, "", l.error = "raised",
                                   << >>, << >>, FALSE, FALSE)
               /\ UNCHANGED afile
          ELSE IF ErrorIn(r.msg, {id})
          THEN /\ resp' = Response(handler, id, "", refused, TRUE, r.msg, FALSE, a,
                                   r.attributes, FALSE, FALSE)
               /\ UNCHANGED afile
          ELSE LET s == save_attributes(AttrsData(r.attributes), written)
               IN /\ resp' = Response(handler, id, "", IF s.ok THEN done ELSE 500,
                                      TRUE, r.msg, FALSE, a, r.attributes, TRUE, s.ok)
                  /\ afile' = IF s.ok THEN AttrsData(r.attributes) ELSE afile

\* What the requests are made with.
ApiNodes == {"A", "Error"}

ApiCoords == {<<Num(0), Num(0)>>, <<Num(91), Num(0)>>}

ApiCosts == {Num(1), Num(0)}

ApiEateries == {"A", "Error"}

ApiAttrs == {[dict |-> FALSE, items |-> << >>],
             [dict |-> TRUE, items |-> <<<<"rating", Num(4)>>>>],
             [dict |-> TRUE, items |-> <<<<"rating", Num(6)>>>>],
             [dict |-> TRUE, items |-> <<<<"wifi", Text("YES")>>, <<"price", Num(-1)>>>>]}

api_add_node ==
    /\ pc = "api"
    /\ \/ BadBody("api_add_node")
       \/ \E id \in ApiNodes \cup {" "}, c \in ApiCoords, written \in BOOLEAN :
            LET Op(g) == add_node(g, id, c[1], c[2])
            IN GraphRequest("api_add_node", id, "", Op(GraphOf(file)), 400, 201, written)
    /\ UNCHANGED <<graph, searchVars, fopVars, storeVars, io, fsVars, fnVars>>

api_add_edge ==
    /\ pc = "api"
    /\ \/ BadBody("api_add_edge")
       \/ \E a \in ApiNodes, b \in ApiNodes, cost \in ApiCosts,
          written \in BOOLEAN :
            LET Op(g) == add_edge(g, a, b, cost)
            IN GraphRequest("api_add_edge", a, b, Op(GraphOf(file)), 400, 201, written)
    /\ UNCHANGED <<graph, searchVars, fopVars, storeVars, io, fsVars, fnVars>>

api_remove_edge ==
    /\ pc = "api"
    /\ \/ BadBody("api_remove_edge")
       \/ \E a \in ApiNodes, b \in ApiNodes, written \in BOOLEAN :
            LET Op(g) == remove_edge(g, a, b)
            IN GraphRequest("api_remove_edge", a, b, Op(GraphOf(file)), 400, 200, written)
    /\ UNCHANGED <<graph, searchVars, fopVars, storeVars, io, fsVars, fnVars>>

api_remove_node ==
    /\ pc = "api"
    /\ \E id \in ApiNodes, written \in BOOLEAN :
          LET Op(g) == remove_node(g, id)
          IN GraphRequest("api_remove_node", id, "", Op(GraphOf(file)), 404, 200, written)
    /\ UNCHANGED <<graph, searchVars, fopVars, storeVars, io, fsVars, fnVars>>

api_update_eatery ==
    /\ pc = "api"
    /\ \/ BadBody("api_update_eatery")
       \/ \E id \in ApiEateries, new_attrs \in ApiAttrs, written \in BOOLEAN :
            LET Op(a) == update_eatery(a, id, new_attrs)
            IN AttrRequest("api_update_eatery", id, Op(AttrsOf(afile)), 400, 200, written)
    /\ UNCHANGED <<graph, searchVars, fopVars, storeVars, io, fsVars, fnVars>>

api_remove_eatery ==
    /\ pc = "api"
    /\ \E id \in ApiEateries, written \in BOOLEAN :
          LET Op(a) == remove_eatery(a, id)
          IN AttrRequest("api_remove_eatery", id, Op(AttrsOf(afile)), 404, 200, written)
    /\ UNCHANGED <<graph, searchVars, fopVars, storeVars, io, fsVars, fnVars>>

\* add_eatery_node(graph, attributes, id, lat, lng, attrs), which the
\* handler imports from the backend: it gives back the graph with the node
\* added and the attributes with the record of the eatery added, or, with a
\* message that contains "error", both as they were.
add_eatery_node(g, attributes, node_id, lat, lng, attrs) ==
    LET n == add_node(g, node_id, lat, lng)
        u == update_eatery(attributes, node_id, attrs)
    IN IF n.msg # "Node added successfully" \/ u.msg # "Eatery updated successfully"
       THEN [graph |-> g, attributes |-> attributes, msg |-> "Error adding eatery node"]
       ELSE [graph |-> n.graph, attributes |-> u.attributes,
             msg |-> "Eatery node added successfully"]

\* The handler of POST /graph/eatery-nodes: both files are loaded, the
\* function is called, the graph is saved, then the attributes are saved.
\* pre and post of the response hold the graph and the attributes.
api_add_eatery_node ==
    /\ pc = "api"
    /\ \/ BadBody("api_add_eatery_node")
       \/ \E id \in ApiNodes, c \in ApiCoords, attrs \in {Rec(<<<<"rating", Num(4)>>>>)},
             written \in BOOLEAN, awritten \in BOOLEAN :
            LET lg == load_graph(file)
                la == load_attributes(afile)
                loaded == [graph |-> GraphOf(file), attributes |-> AttrsOf(afile)]
            IN IF ~lg.ok \/ ~la.ok
               THEN /\ resp' = Response("api_add_eatery_node", id, "", 500, FALSE, "",
                                        FALSE, loaded, loaded, FALSE, FALSE)
                    /\ UNCHANGED <<file, afile>>
               ELSE LET r == add_eatery_node(loaded.graph, loaded.attributes, id,
                                             c[1], c[2], attrs)
                        post == [graph |-> r.graph, attributes |-> r.attributes]
                        sg == save_graph(GraphData(r.graph), written)
                        sa == save_attributes(AttrsData(r.attributes), awritten)
                    IN IF r.msg = "Error adding eatery node"
                       THEN /\ resp' = Response("api_add_eatery_node", id, "", 400, TRUE,
                                                r.msg, FALSE, loaded, post, FALSE, FALSE)
                            /\ UNCHANGED <<file, afile>>
                       ELSE IF ~sg.ok
                       THEN /\ resp' = Response("api_add_eatery_node", id, "", 500, TRUE,
                                                r.msg, FALSE, loaded, post, TRUE, FALSE)
                            /\ UNCHANGED <<file, afile>>
                       ELSE /\ file' = GraphData(r.graph)
                            /\ afile' = IF sa.ok THEN AttrsData(r.attributes) ELSE afile
                            /\ resp' = Response("api_add_eatery_node", id, "",
                                                IF sa.ok THEN 201 ELSE 500, TRUE, r.msg,
                                                FALSE, loaded, post, TRUE, sa.ok)
    /\ UNCHANGED <<graph, searchVars, fopVars, storeVars, io, fsVars, fnVars>>

\* -------------------------------------------------------------- is_open
\* A time of day, as datetime.time holds it (to the second).
Time(h, m, sec) == [h |-> h, m |-> m, s |-> sec]

\* a < b and a <= b of two datetime.time values: by hour, minute, second.
Earlier(a, b) ==
    \/ a.h < b.h
    \/ a.h = b.h /\ a.m < b.m
    \/ a.h = b.h /\ a.m = b.m /\ a.s < b.s

NotLater(a, b) == a = b \/ Earlier(a, b)

\* A piece of an hours string between two '-': the digits "hh:mm" (h and m
\* as written, in range or not), or other text.
Digits(h, m) == [k |-> "digits", h |-> h, m |-> m, txt |-> ""]

Chars(txt) == [k |-> "chars", h |-> 0, m |-> 0, txt |-> txt]

\* An hours value: None, a number, or a string, given as the list of the
\* pieces that hours_str.split('-') makes of it ("" is the list of the
\* piece "").
NoHours == [k |-> "none", parts |-> << >>]

NumberHours == [k |-> "number", parts |-> << >>]

HoursString(parts) == [k |-> "str", parts |-> parts]

\* s.strip() of the other text there is.
Strip(txt) ==
    CASE txt = " 24/7 " -> "24/7"
      [] txt = " " -> ""
      [] OTHER -> txt

\* not hours_str: None, or the empty string.
Falsy(hours) == hours.k = "none" \/ hours = HoursString(<<Chars("")>>)

\* hours_str.strip().lower() == "24/7" (lower changes no character of it).
AlwaysOpen(hours) ==
    /\ Len(hours.parts) = 1
    /\ hours.parts[1].k = "chars"
    /\ Strip(hours.parts[1].txt) = "24/7"

\* strptime(s, "%H:%M") raises ValueError unless the hour is 0..23 and the
\* minute 0..59.
Parses(part) == part.k = "digits" /\ part.h \in 0..23 /\ part.m \in 0..59

strptime(part) == Time(part.h, part.m, 0)

\* The comparison without the branch for windows that span midnight.
InWindowSameDay(open_time, close_time, t) ==
    NotLater(open_time, t) /\ NotLater(t, close_time)

\* The comparison at the end of is_open.
InWindow(open_time, close_time, t) ==
    IF Earlier(close_time, open_time)
    THEN NotLater(open_time, t) \/ NotLater(t, close_time)
    ELSE NotLater(open_time, t) /\ NotLater(t, close_time)

\* is_open that answers closed when the string does not parse.
is_openFailClosed(hours, t) ==
    IF Falsy(hours) \/ hours.k # "str" THEN TRUE
    ELSE IF AlwaysOpen(hours) THEN TRUE
    ELSE IF Len(hours.parts) # 2 THEN FALSE
    ELSE IF ~(Parses(hours.parts[1]) /\ Parses(hours.parts[2])) THEN FALSE
    ELSE InWindow(strptime(hours.parts[1]), strptime(hours.parts[2]), t)

is_open(hours, t) ==
    IF Falsy(hours) \/ hours.k # "str" THEN TRUE
    ELSE IF AlwaysOpen(hours) THEN TRUE
    ELSE IF Len(hours.parts) # 2 THEN TRUE
    ELSE IF ~(Parses(hours.parts[1]) /\ Parses(hours.parts[2])) THEN TRUE
    ELSE InWindow(strptime(hours.parts[1]), strptime(hours.parts[2]), t)

\* What a call returned: nothing yet, or a value.
Pending == [done |-> FALSE, v |-> FALSE]

Returned(v) == [done |-> TRUE, v |-> v]

\* The pieces, hours values and times of day of the calls.
PartArgs ==
    {Digits(h, m) : h \in {0, 2, 9, 22, 24}, m \in {0, 30, 60}}
        \cup {Chars(t) : t \in {"", " ", "abc", "24/7", " 24/7 "}}

FewParts == {Digits(9, 0), Chars("abc")}

HoursArgs ==
    {NoHours, NumberHours}
        \cup {HoursString(<<a>>) : a \in PartArgs}
        \cup {HoursString(<<a, b>>) : a \in PartArgs, b \in PartArgs}
        \cup {HoursString(<<a, b, c>>) : a \in FewParts, b \in FewParts, c \in FewParts}

NowArgs == {Time(h, m, sec) : h \in {0, 1, 2, 9, 22, 23}, m \in {0, 30}, sec \in {0, 30}}

HoursIdle ==
    /\ hours_str = NoHours
    /\ now = Time(0, 0, 0)
    /\ opened = Pending

\* The call is_open(hours_str) at the time now.
IsOpen ==
    /\ pc = "hours"
    /\ ~opened.done
    /\ opened' = Returned(is_open(hours_str, now))
    /\ UNCHANGED <<hours_str, now, rank_dict, weights, eateries, last_update, top, compared>>
    /\ UNCHANGED <<graph, searchVars, fopVars, storeVars, persistVars, apiVars, fsVars>>

\* ---------------------------------------------- convert_ranks_to_weights
\* The factors, and the unnormalised default weights in hundredths.
KNOWN_FACTORS ==
    {"rating", "price", "distance", "power_outlet", "halal_certified", "wifi", "aircon"}

DEFAULT_WEIGHTS_UNNORMALIZED ==
    [f \in KNOWN_FACTORS |->
        CASE f \in {"rating", "price", "distance"} -> 20
          [] f \in {"power_outlet", "halal_certified"} -> 15
          [] OTHER -> 10]

\* The sum of the values of a mapping.
RECURSIVE SumOf(_)
SumOf(w) ==
    IF DOMAIN w = {} THEN 0
    ELSE LET k == CHOOSE x \in DOMAIN w : TRUE
         IN  w[k] + SumOf([x \in DOMAIN w \ {k} |-> w[x]])

\* A weight vector: w[f] / unit is the weight of factor f.
Weights(unit, w) == [unit |-> unit, w |-> w]

\* DEFAULT_WEIGHTS: each default divided by their total.
DEFAULT_WEIGHTS == Weights(SumOf(DEFAULT_WEIGHTS_UNNORMALIZED), DEFAULT_WEIGHTS_UNNORMALIZED)

\* round(v / total, 4), in ten-thousandths: the nearest one, the even one
\* of two equally near.
Round4(v, total) ==
    LET n == 10000 * v
        q == n \div total
        r == n % total
    IN  IF 2 * r < total THEN q
        ELSE IF 2 * r > total THEN q + 1
        ELSE IF q % 2 = 0 THEN q ELSE q + 1

\* The entries of rank_dict that count: a known factor whose rank int()
\* accepts and makes positive.
ValidRanks(ranks) ==
    LET keep == {f \in DOMAIN ranks \cap KNOWN_FACTORS :
                    IntOk(ranks[f]) /\ IntValue(ranks[f]) > 0}
    IN  [f \in keep |-> IntValue(ranks[f])]

Max(S) == CHOOSE x \in S : \A y \in S : y <= x

convert_ranks_to_weights(ranks) ==
    LET valid_ranks == ValidRanks(ranks)
    IN  IF DOMAIN valid_ranks = {} THEN DEFAULT_WEIGHTS
        ELSE LET max_rank == Max({valid_ranks[f] : f \in DOMAIN valid_ranks})
                 inverse_ranks == [f \in DOMAIN valid_ranks |-> max_rank - valid_ranks[f] + 1]
                 total == SumOf(inverse_ranks)
             IN  Weights(10000, [f \in DOMAIN valid_ranks |-> Round4(inverse_ranks[f], total)])

NoWeights == [done |-> FALSE, v |-> Weights(1, << >>)]

\* The rank mappings of the calls: ranks 1..MaxRank for any of the factors;
\* and for two factors and an unknown one, values of every kind.
OddRanks ==
    {Num(0), Num(-1), Num(2), Num(30000), Str(2), Real(2), Real(0), Bool(TRUE), NotANumber}

RankArgs ==
    UNION {[F -> {Num(r) : r \in 1..MaxRank}] : F \in SUBSET KNOWN_FACTORS}
        \cup UNION {[F -> OddRanks] : F \in SUBSET {"distance", "rating", "x"}}

RanksIdle ==
    /\ rank_dict = << >>
    /\ weights = NoWeights

\* The call convert_ranks_to_weights(rank_dict).
ConvertRanks ==
    /\ pc = "ranks"
    /\ ~weights.done
    /\ weights' = Returned(convert_ranks_to_weights(rank_dict))
    /\ UNCHANGED <<hours_str, now, opened, rank_dict, eateries, last_update, top, compared>>
    /\ UNCHANGED <<graph, searchVars, fopVars, storeVars, persistVars, apiVars, fsVars>>

\* ----------------------------------------------- calls of update_eatery
\* The record of a call of update_eatery: its arguments, the dict as it was
\* before, the message returned.
Updated(eatery_id, new_attrs, before, msg) ==
    [done |-> TRUE, eatery_id |-> eatery_id, new_attrs |-> new_attrs,
     before |-> before, msg |-> msg]

NoUpdate == [done |-> FALSE, eatery_id |-> "", new_attrs |-> NotADict,
             before |-> << >>, msg |-> ""]

EateryIdle ==
    /\ eateries = << >>
    /\ last_update = NoUpdate

\* The values a flag is given: true, false, 0, 2, 0.5, 1.5, "YES", "t", "Y",
\* "no", "1", "0", None.
FlagArgs ==
    {Bool(TRUE), Bool(FALSE), Num(0), Num(2), Real(0), Real(1), Text("YES"),
     Text("t"), Text("Y"), Text("no"), Str(1), Str(0), NotANumber}

\* The new_attrs of the calls: one flag; a rating or a price that is
\* rejected, alone or after a flag; something that is no dict.
UpdateArgs ==
    {Rec(<<<<k, v>>>>) : k \in {"wifi", "aircon"}, v \in FlagArgs}
        \cup {Rec(<<<<"rating", Num(6)>>>>), Rec(<<<<"rating", Num(4)>>>>),
              Rec(<<<<"wifi", Text("YES")>>, <<"price", Num(-1)>>>>), NotADict}

\* A call update_eatery(attributes, eatery_id, new_attrs) on the dict of the
\* caller, which the function changes in place and returns.
UpdateEatery ==
    /\ pc = "eatery"
    /\ \E id \in {"A", "B"}, new_attrs \in UpdateArgs :
          LET r == update_eatery(eateries, id, new_attrs)
          IN /\ eateries' = r.attributes
             /\ last_update' = Updated(id, new_attrs, eateries, r.msg)
    /\ UNCHANGED <<hours_str, now, opened, rank_dict, weights, top, compared>>
    /\ UNCHANGED <<graph, searchVars, fopVars, storeVars, persistVars, apiVars, fsVars>>

\* ------------------------------------------------------- query results
\* What get_top_eateries returned: the list of the top eateries, an error
\* dict, or (raw) the value that load_graph / load_attributes had returned.
TopResult(kind, error, list) == [kind |-> kind, error |-> error, list |-> list]

NoTop == TopResult("pending", "", << >>)

\* An entry of the dict of compare_algorithms: the error of the path result,
\* or its path, cost and goal.
Entry(r) ==
    IF r.error # "" THEN [error |-> r.error, eatery |-> "", path |-> << >>, cost |-> Inf]
    ELSE [error |-> "", eatery |-> r.goal, path |-> r.path, cost |-> r.cost]

\* compare_algorithms: not called (off), in its loop (running), returned
\* (done) with its two entries or with the error of its except branch.
Comparison(at, error, ucs, astar) ==
    [at |-> at, error |-> error, ucs |-> ucs, astar |-> astar]

NoCompare == Comparison("off", "", Entry(FopError("pending")), Entry(FopError("pending")))

QueryIdle ==
    /\ top = NoTop
    /\ compared = NoCompare

\* ------------------------------------------------------------- scoring
COST_FACTORS == {"price", "distance"}

MAX_TOP_EATERIES == 10

\* normalize_value, as the fraction num / den.
normalize_value(value, min_val, max_val, invert) ==
    IF max_val <= min_val THEN [num |-> 1, den |-> 2]
    ELSE LET low == IF value < max_val THEN value ELSE max_val
             clamped == IF min_val > low THEN min_val ELSE low
         IN [num |-> IF invert THEN max_val - clamped ELSE clamped - min_val,
             den |-> max_val - min_val]

\* The ids of a dict as a list, in the order of the dict.
Ordered(S) ==
    [k \in 1..Cardinality(S) |->
        CHOOSE e \in S : Cardinality({x \in S : Rank(x) < Rank(e)}) = k - 1]

\* attributes[node].get('hours', '')
HoursOf(data) ==
    IF "hours" \in DOMAIN data THEN data["hours"] ELSE HoursString(<<Chars("")>>)

RECURSIVE ProductOf(_)
ProductOf(w) ==
    IF DOMAIN w = {} THEN 1
    ELSE LET k == CHOOSE x \in DOMAIN w : TRUE
         IN  w[k] * ProductOf([x \in DOMAIN w \ {k} |-> w[x]])

\* The eateries that compute_scores scores, without the test of the hours.
eatery_nodesAnyHours(attributes, g, t) ==
    {node \in DOMAIN attributes : node \in DOMAIN g.nodes}

\* The list eatery_nodes of compute_scores, as a set: the eateries that are
\* nodes of the graph and open at the time t.
eatery_nodes(attributes, g, t) ==
    {node \in DOMAIN attributes :
        node \in DOMAIN g.nodes /\ is_open(HoursOf(attributes[node]), t)}

\* compute_scores at the time t, with the weight vector w: the scores dict
\* in its order, the scores in ten-thousandths.  The value of a factor is
\* the distance from the start or the attribute of that name (in halves);
\* the normalised values are brought to the common denominator D.
compute_scores(attributes, g, start_node, w, t) ==
    LET S == eatery_nodes(attributes, g, t)
        nodes == Ordered(S)
        Has(e, f) == f = "distance" \/ f \in DOMAIN attributes[e]
        Value(e, f) ==
            IF f = "distance"
            THEN haversine(g.nodes[start_node][1], g.nodes[start_node][2],
                           g.nodes[e][1], g.nodes[e][2])
            ELSE Twice(attributes[e][f])
        factors == {f \in DOMAIN w.w : \E e \in S : Has(e, f)}
        min_val(f) == SetMin({Value(e, f) : e \in {x \in S : Has(x, f)}})
        max_val(f) == SetMax({Value(e, f) : e \in {x \in S : Has(x, f)}})
        norm(e, f) == normalize_value(Value(e, f), min_val(f), max_val(f),
                                      f \in COST_FACTORS)
        D == ProductOf([f \in factors |->
                           IF max_val(f) <= min_val(f) THEN 2
                           ELSE max_val(f) - min_val(f)])
        total_score(e) ==
            SumOf([f \in {x \in factors : Has(e, x)} |->
                      w.w[f] * norm(e, f).num * (D \div norm(e, f).den)])
    IN [k \in 1..Len(nodes) |->
          [id |-> nodes[k], score |-> Round4(total_score(nodes[k]), w.unit * D)]]

\* convert_ranks_to_weights(custom_ranks) if custom_ranks else DEFAULT_WEIGHTS
WeightsFor(custom_ranks) ==
    IF DOMAIN custom_ranks = {} THEN DEFAULT_WEIGHTS
    ELSE convert_ranks_to_weights(custom_ranks)

\* ----------------------------------------------------- query operations
\* A start node that print() cannot encode: the lone surrogate that the
\* JSON text "\\ud800" decodes to.
Surrogate == "U+D800"

\* debug_log(message) prints, DEBUG_MODE being True: print raises
\* UnicodeEncodeError when the message holds a lone surrogate.
Printable(s) == s # Surrogate

\* find_optimal_path(start, algo, rank_dict) from its first line to the
\* scores: the debug_log before the try, load_graph and load_attributes
\* with their error returns (an exception inside the try becomes the
\* "Unexpected error" dict), the weights and compute_scores.
FopEnter(algo) ==
    LET lg == load_graph(file)
        la == load_attributes(afile)
        g == GraphOf(file)
        Ends(r) == /\ fop' = r
                   /\ pc' = "fop_done"
                   /\ graph' = EmptyGraph
                   /\ scores' = << >>
    IN /\ algorithm' = algo
       /\ sorted_eateries' = << >>
       /\ idx' = 0
       /\ goal' = ""
       /\ frontier' = {}
       /\ visited' = {}
       /\ nodes_expanded' = 0
       /\ max_frontier_size' = 0
       /\ ret' = NoResult
       /\ IF ~Printable(start)
          THEN Ends([FopError("UnicodeEncodeError") EXCEPT !.raised = TRUE])
          ELSE IF lg.error \in {"raised", "error element"}
          THEN Ends(FopError("Unexpected error"))
          ELSE IF ~lg.ok
          THEN Ends(FopError(lg.error))
          ELSE IF la.error \in {"raised", "error element"}
          THEN Ends(FopError("Unexpected error"))
          ELSE IF ~la.ok
          THEN Ends(FopError(la.error))
          ELSE /\ graph' = g
               /\ scores' = IF start \in DOMAIN g.nodes
                            THEN compute_scores(AttrsOf(afile), g, start,
                                                WeightsFor(rank_dict), now)
                            ELSE << >>
               /\ fop' = NoFop
               /\ pc' = "fop_start"
       /\ UNCHANGED <<start, results, storeVars, persistVars, apiVars, fsVars>>
       /\ UNCHANGED <<hours_str, now, opened, rank_dict, weights, eateries, last_update, top>>

\* A call of find_optimal_path.
FindOptimalPath ==
    /\ pc = "query"
    /\ \E algo \in {"ucs", "astar", "dfs"} : FopEnter(algo)
    /\ UNCHANGED compared

\* get_top_eateries(start_node, top_n, custom_ranks) on the files f and af at
\* the time t.
get_top_eateries(start_node, top_n, custom_ranks, f, af, t) ==
    LET lg == load_graph(f)
        la == load_attributes(af)
        g == GraphOf(f)
        n == IF IntValue(top_n) > MAX_TOP_EATERIES THEN MAX_TOP_EATERIES
             ELSE IntValue(top_n)
        sc == compute_scores(AttrsOf(af), g, start_node, WeightsFor(custom_ranks), t)
    IN IF ~IntOk(top_n) THEN TopResult("error", "Invalid top_n value", << >>)
       ELSE IF IntValue(top_n) < 1
       THEN TopResult("error", "top_n must be at least 1", << >>)
       ELSE IF lg.error = "raised" THEN TopResult("error", "Unexpected error", << >>)
       ELSE IF lg.error = "error element" THEN TopResult("raw", "", << >>)
       ELSE IF ~lg.ok THEN TopResult("error", lg.error, << >>)
       ELSE IF la.error = "raised" THEN TopResult("error", "Unexpected error", << >>)
       ELSE IF la.error = "error element" THEN TopResult("raw", "", << >>)
       ELSE IF ~la.ok THEN TopResult("error", la.error, << >>)
       ELSE IF start_node \notin DOMAIN g.nodes
       THEN TopResult("error", "Start node not found", << >>)
       ELSE IF sc = << >> THEN TopResult("error", "No valid eateries found", << >>)
       ELSE TopResult("list", "",
                      SubSeq(Sorted(sc), 1, IF n < Len(sc) THEN n ELSE Len(sc)))

\* A call of get_top_eateries.
GetTopEateries ==
    /\ pc = "query"
    /\ \E top_n \in {Num(1), Num(3), Num(0), NotANumber} :
          top' = get_top_eateries(start, top_n, rank_dict, file, afile, now)
    /\ pc' = "top_done"
    /\ UNCHANGED <<hours_str, now, opened, rank_dict, weights, eateries, last_update, compared>>
    /\ UNCHANGED <<graph, start, goal, algorithm, frontier, visited, nodes_expanded,
                   max_frontier_size, ret, results, fopVars, storeVars, persistVars,
                   apiVars, fsVars>>

\* compare_algorithms(start, rank_dict): the first pass of its loop calls
\* find_optimal_path with ucs.
CompareStart ==
    /\ pc = "query"
    /\ compared' = Comparison("running", "", compared.ucs, compared.astar)
    /\ FopEnter("ucs")

\* find_optimal_path has returned to compare_algorithms for ucs: its
\* result goes into the dict and the second pass calls it with astar; an
\* exception that came out of it ends compare_algorithms in its except branch.
CompareNext ==
    /\ pc = "fop_done"
    /\ compared.at = "running"
    /\ algorithm = "ucs"
    /\ IF fop.raised
       THEN /\ compared' = Comparison("done", "Comparison failed", compared.ucs,
                                      compared.astar)
            /\ pc' = "compare_done"
            /\ UNCHANGED <<graph, start, goal, algorithm, frontier, visited,
                           nodes_expanded, max_frontier_size, ret, results, fopVars,
                           storeVars, persistVars, apiVars, fsVars>>
            /\ UNCHANGED <<hours_str, now, opened, rank_dict, weights, eateries,
                           last_update, top>>
       ELSE /\ compared' = Comparison("running", "", Entry(fop), compared.astar)
            /\ FopEnter("astar")

CompareReturn ==
    /\ pc = "fop_done"
    /\ compared.at = "running"
    /\ algorithm = "astar"
    /\ compared' = IF fop.raised
                   THEN Comparison("done", "Comparison failed", compared.ucs,
                                   compared.astar)
                   ELSE Comparison("done", "", compared.ucs, Entry(fop))
    /\ pc' = "compare_done"
    /\ UNCHANGED <<graph, start, goal, algorithm, frontier, visited, nodes_expanded,
                   max_frontier_size, ret, results, fopVars, storeVars, persistVars,
                   apiVars, fsVars>>
    /\ UNCHANGED <<hours_str, now, opened, rank_dict, weights, eateries, last_update, top>>

FnIdle == HoursIdle /\ RanksIdle /\ EateryIdle /\ QueryIdle

\* ------------------------------------------- concurrent requests, save_data
\* A request loads the graph file, puts its node into the graph and saves:
\* save_data opens GRAPH_FILE.tmp for writing (which empties the file of that
\* name if there is one), writes and closes it, opens it again and reads it
\* back, and renames it to GRAPH_FILE.  The requests of a threaded server
\* interleave between these steps.  A file is known by its number in inodes;
\* a name names a file; a request that has opened a file writes to that file,
\* whatever name it has by then.
\* The content of a file: a complete record (the set of node ids of a
\* graph; nan: a weight of the graph is NaN), or the empty file that
\* open(..., 'w') leaves until the data is written.
Record(ids, nan) == [state |-> "complete", ids |-> ids, nan |-> nan]

Truncated == [state |-> "truncated", ids |-> {}, nan |-> FALSE]

Procs == {1, 2}

\* The node that request p adds.
NodeOf(p) == IF p = 1 THEN "A" ELSE "B"

\* A request: pc, where it is; nan, its mutation puts a NaN weight into the
\* graph (add_edge with the cost "nan"); data, what it saves; handle, the
\* file it has opened; before, the live content when its save began; result
\* and msg, what it returned; touched, it has changed the live file.
Request(at, nan, data, handle, before, result, msg, touched) ==
    [pc |-> at, nan |-> nan, data |-> data, handle |-> handle, before |-> before,
     result |-> result, msg |-> msg, touched |-> touched]

NewRequest(at, nan) ==
    Request(at, nan, Record({}, FALSE), 0, Record({}, FALSE), "", "", FALSE)

FsIdle ==
    /\ inodes = <<Record({}, FALSE)>>
    /\ live = 1
    /\ temp = 0
    /\ proc = [p \in Procs |-> NewRequest("off", FALSE)]

\* json.load of the file gives back the data: the file holds the complete
\* record of these ids (a NaN read back is not equal to the NaN written).
ReadsBack(content, data) ==
    content.state = "complete" /\ content.ids = data.ids /\ ~data.nan

\* The except branch and the mismatch branch of save_data: remove the
\* temporary file if there is one, return the error dict.
Failed(p, msg) ==
    /\ temp' = 0
    /\ proc' = [proc EXCEPT ![p].pc = "done", ![p].result = "error", ![p].msg = msg]

\* load_graph, then the mutation: the request holds the graph to save.
Load(p) ==
    /\ pc = "fs"
    /\ proc[p].pc = "load"
    /\ IF inodes[live].state # "complete"
       THEN proc' = [proc EXCEPT ![p].pc = "done", ![p].result = "load error"]
       ELSE proc' = [proc EXCEPT ![p].pc = "open",
                                 ![p].data = Record(inodes[live].ids \cup {NodeOf(p)},
                                                    proc[p].nan \/ inodes[live].nan)]
    /\ UNCHANGED <<inodes, live, temp>>
    /\ UNCHANGED <<graph, searchVars, fopVars, storeVars, persistVars, apiVars, fnVars>>

\* A save that opened GRAPH_FILE itself for writing would empty it.
OpenInPlace(p) ==
    /\ pc = "fs"
    /\ proc[p].pc = "open"
    /\ inodes' = [inodes EXCEPT ![live] = Truncated]
    /\ proc' = [proc EXCEPT ![p].pc = "write", ![p].handle = live,
                            ![p].before = inodes[live]]
    /\ UNCHANGED <<live, temp>>
    /\ UNCHANGED <<graph, searchVars, fopVars, storeVars, persistVars, apiVars, fnVars>>

\* open(temp_file, 'w'): creates the file, or empties the one of that name.
Open(p) ==
    /\ pc = "fs"
    /\ proc[p].pc = "open"
    /\ IF temp = 0
       THEN /\ inodes' = Append(inodes, Truncated)
            /\ temp' = Len(inodes) + 1
       ELSE /\ inodes' = [inodes EXCEPT ![temp] = Truncated]
            /\ UNCHANGED temp
    /\ proc' = [proc EXCEPT ![p].pc = "write", ![p].handle = temp',
                            ![p].before = inodes[live]]
    /\ UNCHANGED live
    /\ UNCHANGED <<graph, searchVars, fopVars, storeVars, persistVars, apiVars, fnVars>>

\* json.dump and the close of the file: the data is in the file the request
\* opened; or the write fails (OSError) and nothing of it is there.
Write(p) ==
    /\ pc = "fs"
    /\ proc[p].pc = "write"
    /\ \/ /\ inodes' = [inodes EXCEPT ![proc[p].handle] = proc[p].data]
          /\ proc' = [proc EXCEPT ![p].pc = "read",
                                  ![p].touched = @ \/ proc[p].handle = live]
          /\ UNCHANGED temp
       \/ /\ Failed(p, "Error saving GRAPH_FILE")
          /\ UNCHANGED inodes
    /\ UNCHANGED live
    /\ UNCHANGED <<graph, searchVars, fopVars, storeVars, persistVars, apiVars, fnVars>>

\* open(temp_file, 'r') and json.load, the comparison with the data.
ReadBack(p) ==
    /\ pc = "fs"
    /\ proc[p].pc = "read"
    /\ IF temp # 0 /\ ReadsBack(inodes[temp], proc[p].data)
       THEN /\ proc' = [proc EXCEPT ![p].pc = "replace"]
            /\ UNCHANGED temp
       ELSE IF temp # 0 /\ inodes[temp].state = "complete"
       THEN Failed(p, "Data validation failed after write")
       ELSE Failed(p, "Error saving GRAPH_FILE")
    /\ UNCHANGED <<inodes, live>>
    /\ UNCHANGED <<graph, searchVars, fopVars, storeVars, persistVars, apiVars, fnVars>>

\* A rename that kept the nodes of the file it replaces.
ReplaceMerging(p) ==
    /\ pc = "fs"
    /\ proc[p].pc = "replace"
    /\ temp # 0
    /\ inodes' = [inodes EXCEPT ![temp].ids = @ \cup inodes[live].ids]
    /\ live' = temp
    /\ temp' = 0
    /\ proc' = [proc EXCEPT ![p].pc = "return", ![p].touched = TRUE]
    /\ UNCHANGED <<graph, searchVars, fopVars, storeVars, persistVars, apiVars, fnVars>>

\* os.replace(temp_file, file_path): the name GRAPH_FILE names the temporary
\* file from now on; or it fails (no such file, OSError).
Replace(p) ==
    /\ pc = "fs"
    /\ proc[p].pc = "replace"
    /\ \/ /\ temp # 0
          /\ live' = temp
          /\ temp' = 0
          /\ proc' = [proc EXCEPT ![p].pc = "return", ![p].touched = TRUE]
       \/ /\ Failed(p, "Error saving GRAPH_FILE")
          /\ UNCHANGED live
    /\ UNCHANGED inodes
    /\ UNCHANGED <<graph, searchVars, fopVars, storeVars, persistVars, apiVars, fnVars>>

\* return True.
ReturnTrue(p) ==
    /\ pc = "fs"
    /\ proc[p].pc = "return"
    /\ proc' = [proc EXCEPT ![p].pc = "done", ![p].result = "ok"]
    /\ UNCHANGED <<inodes, live, temp>>
    /\ UNCHANGED <<graph, searchVars, fopVars, storeVars, persistVars, apiVars, fnVars>>

\* The process of the request dies in the middle of its save.
Crash(p) ==
    /\ pc = "fs"
    /\ proc[p].pc \in {"write", "read", "replace", "return"}
    /\ proc' = [proc EXCEPT ![p].pc = "done", ![p].result = "crashed"]
    /\ UNCHANGED <<inodes, live, temp>>
    /\ UNCHANGED <<graph, searchVars, fopVars, storeVars, persistVars, apiVars, fnVars>>

\* Every idle group of variables that the first four specifications leave
\* alone.
LaterIdle == ApiIdle /\ FsIdle /\ FnIdle

\* ------------------------------------------------------ generated graphs
Pairs(N) == {p \in SUBSET N : Cardinality(p) = 2}

\* The graph with nodes N at longitudes pos (on the equator) and the
\* undirected edges of weight w[p] > 0.  The nodes of `cut` have no entry in
\* edges (validate_graph does not ask for one, nor for symmetry): the edges
\* towards them stay, those out of them are gone.
MkGraph(N, pos, w, cut) ==
    [nodes |-> [n \in N |-> <<0, pos[n]>>],
     edges |-> [n \in N \ cut |->
                  [m \in {m \in N \ {n} : w[{n, m}] > 0} |-> w[{n, m}]]]]

\* An edge is absent (0), short (1) or long (MaxWeight).
EdgeWeights == {0, 1, MaxWeight}

SearchNodes == {"A", "B", "C", "D"}

\* Searches from A to D over every graph on four nodes; D lies at longitude 0.
GeneralInit ==
    /\ start = "A"
    /\ goal = "D"
    /\ \E w \in [Pairs(SearchNodes) -> EdgeWeights],
          pos \in [SearchNodes -> 0..MaxPos] :
            /\ pos["D"] = 0
            /\ graph = MkGraph(SearchNodes, pos, w, {})

\* Every graph on four nodes at one place, also with nodes that have no
\* adjacency entry, and the calls that end before the loop: a missing start
\* or goal ("Z"), start = goal.
PlainInit ==
    /\ start \in {"A", "Z"}
    /\ goal \in {"A", "D", "Z"}
    /\ \E w \in [Pairs(SearchNodes) -> EdgeWeights],
          cut \in {{}, {"B"}, {"C"}, {"D"}} :
            graph = MkGraph(SearchNodes, [n \in SearchNodes |-> 0], w, cut)

\* Graphs whose edges all cost the same: two routes from A to E (A-B-E and
\* A-C-D-E) and the way on from E to the goal G, at any longitudes.
UniformNodes == {"A", "B", "C", "D", "E", "F", "G"}

UniformEdges == {{"A", "B"}, {"B", "E"}, {"A", "C"}, {"C", "D"}, {"D", "E"},
                 {"E", "F"}, {"F", "G"}}

UniformInit ==
    /\ start = "A"
    /\ goal = "G"
    /\ \E c \in {1, MaxWeight},
          pos \in [UniformNodes -> 0..MaxPos] :
            /\ pos["G"] = 0
            /\ graph = MkGraph(UniformNodes, pos,
                               [p \in Pairs(UniformNodes) |->
                                   IF p \in UniformEdges THEN c ELSE 0], {})

SearchInit ==
    /\ \/ GeneralInit
       \/ PlainInit
       \/ UniformInit
    /\ algorithm = "ucs"
    /\ pc = "call"
    /\ frontier = {}
    /\ visited = {}
    /\ nodes_expanded = 0
    /\ max_frontier_size = 0
    /\ ret = NoResult
    /\ results = [ucs |-> NoResult, astar |-> NoResult]
    /\ FopIdle
    /\ StoreIdle
    /\ PersistIdle
    /\ LaterIdle

\* The scores dicts: a score for each eatery of a subset of `ids`, listed in
\* the order of `order`.
RECURSIVE ScoreDicts(_)
ScoreDicts(order) ==
    IF order = << >> THEN {<< >>}
    ELSE LET rest == ScoreDicts(Tail(order))
         IN rest \cup {<<[id |-> Head(order), score |-> v]>> \o r :
                          v \in 0..MaxScore, r \in rest}

\* find_optimal_path from A with ucs or astar over the graphs on four nodes
\* with short edges, A one degree away from the others or not, with the
\* scores of any subset of the nodes in either order of the dict.
FindMainInit ==
    /\ start = "A"
    /\ algorithm \in {"ucs", "astar"}
    /\ \E w \in [Pairs(SearchNodes) -> {0, 1}], a \in {0, 1} :
            graph = MkGraph(SearchNodes,
                            [n \in SearchNodes |-> IF n = "A" THEN a ELSE 0], w, {})
    /\ scores \in ScoreDicts(<<"A", "B", "C", "D">>) \cup ScoreDicts(<<"D", "C", "B">>)

\* The calls that fail early: a start that is no node ("Z"), an algorithm
\* that is neither ucs nor astar.
FindSideInit ==
    /\ start \in {"A", "Z"}
    /\ algorithm \in {"ucs", "astar", "dfs"}
    /\ \E w \in [Pairs(SearchNodes) -> {0, 1}] :
            graph = MkGraph(SearchNodes, [n \in SearchNodes |-> 0], w, {})
    /\ scores \in ScoreDicts(<<"D", "C", "B">>)

FindInit ==
    /\ \/ FindMainInit
       \/ FindSideInit
    /\ goal = ""
    /\ sorted_eateries = << >>
    /\ idx = 0
    /\ fop = NoFop
    /\ pc = "fop_start"
    /\ frontier = {}
    /\ visited = {}
    /\ nodes_expanded = 0
    /\ max_frontier_size = 0
    /\ ret = NoResult
    /\ results = [ucs |-> NoResult, astar |-> NoResult]
    /\ StoreIdle
    /\ PersistIdle
    /\ LaterIdle

FindNext ==
    \/ FopStart
    \/ FopTry
    \/ SearchCall
    \/ SearchLoop
    \/ FopAfter

SpecFind == FindInit /\ [][FindNext]_vars

\* find_optimal_path over every graph on four nodes at one place, the
\* complete graph of equal weights among them; the call runs on: a step that
\* can be taken is taken.
FindDenseInit ==
    /\ FindSideInit
    /\ goal = ""
    /\ sorted_eateries = << >>
    /\ idx = 0
    /\ fop = NoFop
    /\ pc = "fop_start"
    /\ frontier = {}
    /\ visited = {}
    /\ nodes_expanded = 0
    /\ max_frontier_size = 0
    /\ ret = NoResult
    /\ results = [ucs |-> NoResult, astar |-> NoResult]
    /\ StoreIdle
    /\ PersistIdle
    /\ LaterIdle

SpecFindFair == FindDenseInit /\ [][FindNext]_vars /\ WF_vars(FindNext)

\* The graphs a request starts from: what load_graph can return for at most
\* two nodes, also with a node that has no adjacency entry.
StoreInit ==
    /\ \E N \in SUBSET {"A", "B"} :
       \E w \in [Pairs(N) -> {0, 1}], cut \in SUBSET N :
            graph = MkGraph(N, [n \in N |-> 0], w, cut)
    /\ last = NoCall
    /\ pc = "store"
    /\ start = ""
    /\ goal = ""
    /\ algorithm = ""
    /\ frontier = {}
    /\ visited = {}
    /\ nodes_expanded = 0
    /\ max_frontier_size = 0
    /\ ret = NoResult
    /\ results = [ucs |-> NoResult, astar |-> NoResult]
    /\ FopIdle
    /\ PersistIdle
    /\ LaterIdle

StoreNext ==
    \/ AddNode
    \/ AddEdge
    \/ RemoveNode
    \/ RemoveEdge

SpecStore == StoreInit /\ [][StoreNext]_vars

\* The file as a request finds it: anything.
PersistInit ==
    /\ file \in Files
    /\ io = NoIo
    /\ pc = "persist"
    /\ graph = EmptyGraph
    /\ start = ""
    /\ goal = ""
    /\ algorithm = ""
    /\ frontier = {}
    /\ visited = {}
    /\ nodes_expanded = 0
    /\ max_frontier_size = 0
    /\ ret = NoResult
    /\ results = [ucs |-> NoResult, astar |-> NoResult]
    /\ FopIdle
    /\ StoreIdle
    /\ LaterIdle

PersistNext ==
    \/ LoadGraph
    \/ SaveGraph

SpecPersist == PersistInit /\ [][PersistNext]_vars

\* The files as the first request finds them: a graph of at most two nodes
\* (one of them, perhaps, without an adjacency entry), or a file that
\* load_graph refuses; attributes of at most one eatery, or a file that
\* load_attributes refuses.
ApiInit ==
    /\ \/ \E N \in SUBSET ApiNodes, cut \in SUBSET ApiNodes :
             /\ cut \subseteq N
             /\ file = GraphData(MkGraph(N, [n \in N |-> 0], [p \in Pairs(N) |-> 0], cut))
       \/ file \in {NoData("missing"), NoData("number")}
    /\ \/ afile \in {AttrData("attributes", << >>),
                     AttrData("attributes", [e \in {"A"} |-> Rec([k \in {"rating"} |-> Num(3)])]),
                     AttrData("attributes", [e \in {"A"} |-> NotADict]),
                     AttrData("missing", << >>)}
    /\ resp = NoResponse
    /\ FsIdle
    /\ FnIdle
    /\ io = NoIo
    /\ pc = "api"
    /\ graph = EmptyGraph
    /\ start = ""
    /\ goal = ""
    /\ algorithm = ""
    /\ frontier = {}
    /\ visited = {}
    /\ nodes_expanded = 0
    /\ max_frontier_size = 0
    /\ ret = NoResult
    /\ results = [ucs |-> NoResult, astar |-> NoResult]
    /\ FopIdle
    /\ StoreIdle

ApiNext ==
    \/ api_add_node
    \/ api_add_edge
    \/ api_remove_edge
    \/ api_remove_node
    \/ api_update_eatery
    \/ api_remove_eatery
    \/ api_add_eatery_node

SpecApi == ApiInit /\ [][ApiNext]_vars

\* One request, or two at the same time; the graph file holds a graph.
FsInit ==
    /\ inodes \in {<<Record({}, FALSE)>>, <<Record({"Z"}, FALSE)>>}
    /\ live = 1
    /\ temp = 0
    /\ \E nan \in BOOLEAN, second \in {"off", "load"} :
          proc = [p \in Procs |-> IF p = 1 THEN NewRequest("load", nan)
                                  ELSE NewRequest(second, FALSE)]
    /\ ApiIdle
    /\ FnIdle
    /\ io = NoIo
    /\ file = NoData("missing")
    /\ pc = "fs"
    /\ graph = EmptyGraph
    /\ start = ""
    /\ goal = ""
    /\ algorithm = ""
    /\ frontier = {}
    /\ visited = {}
    /\ nodes_expanded = 0
    /\ max_frontier_size = 0
    /\ ret = NoResult
    /\ results = [ucs |-> NoResult, astar |-> NoResult]
    /\ FopIdle
    /\ StoreIdle

FsNext ==
    \/ \E p \in Procs : Load(p)
    \/ \E p \in Procs : Open(p)
    \/ \E p \in Procs : Write(p)
    \/ \E p \in Procs : ReadBack(p)
    \/ \E p \in Procs : Replace(p)
    \/ \E p \in Procs : ReturnTrue(p)
    \/ \E p \in Procs : Crash(p)

SpecFs == FsInit /\ [][FsNext]_vars

\* A call of is_open with an hours value, at a time of day.
HoursInit ==
    /\ hours_str \in HoursArgs
    /\ now \in NowArgs
    /\ opened = Pending
    /\ RanksIdle
    /\ EateryIdle
    /\ QueryIdle
    /\ ApiIdle
    /\ FsIdle
    /\ io = NoIo
    /\ file = NoData("missing")
    /\ pc = "hours"
    /\ graph = EmptyGraph
    /\ start = ""
    /\ goal = ""
    /\ algorithm = ""
    /\ frontier = {}
    /\ visited = {}
    /\ nodes_expanded = 0
    /\ max_frontier_size = 0
    /\ ret = NoResult
    /\ results = [ucs |-> NoResult, astar |-> NoResult]
    /\ FopIdle
    /\ StoreIdle

HoursNext == IsOpen

SpecHours == HoursInit /\ [][HoursNext]_vars

\* A call of convert_ranks_to_weights with a rank mapping.
RanksInit ==
    /\ rank_dict \in RankArgs
    /\ weights = NoWeights
    /\ HoursIdle
    /\ EateryIdle
    /\ QueryIdle
    /\ ApiIdle
    /\ FsIdle
    /\ io = NoIo
    /\ file = NoData("missing")
    /\ pc = "ranks"
    /\ graph = EmptyGraph
    /\ start = ""
    /\ goal = ""
    /\ algorithm = ""
    /\ frontier = {}
    /\ visited = {}
    /\ nodes_expanded = 0
    /\ max_frontier_size = 0
    /\ ret = NoResult
    /\ results = [ucs |-> NoResult, astar |-> NoResult]
    /\ FopIdle
    /\ StoreIdle

RanksNext == ConvertRanks

SpecRanks == RanksInit /\ [][RanksNext]_vars

\* Calls of update_eatery, one after another, on a dict that starts empty or
\* with one eatery.
EateryInit ==
    /\ eateries \in {<< >>, [e \in {"A"} |-> [k \in {"rating"} |-> Num(3)]]}
    /\ last_update = NoUpdate
    /\ HoursIdle
    /\ RanksIdle
    /\ QueryIdle
    /\ ApiIdle
    /\ FsIdle
    /\ io = NoIo
    /\ file = NoData("missing")
    /\ pc = "eatery"
    /\ graph = EmptyGraph
    /\ start = ""
    /\ goal = ""
    /\ algorithm = ""
    /\ frontier = {}
    /\ visited = {}
    /\ nodes_expanded = 0
    /\ max_frontier_size = 0
    /\ ret = NoResult
    /\ results = [ucs |-> NoResult, astar |-> NoResult]
    /\ FopIdle
    /\ StoreIdle

EateryNext == UpdateEatery

SpecEatery == EateryInit /\ [][EateryNext]_vars

\* The files, the clock and the arguments of a query.  The graph file: A, B
\* and C one degree apart on the equator with any of the edges between them,
\* or A and B only; or a file that load_graph refuses.  The attributes
\* file: any of the eateries B, C and D, with a rating and with or without
\* the hours 09:00-17:00; or a file that load_attributes refuses.
QueryNodes == {"A", "B", "C"}

QueryGraphFiles ==
    {GraphData(MkGraph(N, [n \in N |-> Rank(n) - 1], [p \in Pairs(N) |-> w[p]], {})) :
        N \in {QueryNodes}, w \in [Pairs(QueryNodes) -> {0, 1}]}
      \cup {GraphData(MkGraph({"A", "B"}, [n \in {"A", "B"} |-> Rank(n) - 1],
                              [p \in Pairs({"A", "B"}) |-> 1], {}))}
      \cup {NoData("missing"), NoData("number"), NoData("error list"),
            Data("graph", TRUE, << >>, << >>)}

OfficeHours == HoursString(<<Digits(9, 0), Digits(17, 0)>>)

Rated(r) == [k \in {"rating"} |-> r]

RatedWithHours(r) == [k \in {"rating", "hours"} |-> IF k = "rating" THEN r ELSE OfficeHours]

EateryRecords(e) ==
    CASE e = "B" -> {Rated(Num(3)), Rated(Num(5)), RatedWithHours(Num(5))}
      [] e = "C" -> {Rated(Num(4)), RatedWithHours(Num(4))}
      [] OTHER -> {Rated(Num(4))}

QueryAttrFiles ==
    UNION {{AttrData("attributes", [e \in S |-> Rec(recs[e])]) :
                recs \in {x \in [S -> UNION {EateryRecords(e) : e \in S}] :
                             \A e \in S : x[e] \in EateryRecords(e)}} :
           S \in SUBSET {"B", "C", "D"}}
      \cup {AttrData("missing", << >>), AttrData("number", << >>),
            AttrData("error list", << >>)}

QueryInit ==
    /\ file \in QueryGraphFiles
    /\ afile \in QueryAttrFiles
    /\ now \in {Time(9, 30, 0), Time(22, 0, 0)}
    /\ rank_dict \in {<< >>, [f \in {"rating"} |-> Num(1)],
                       [f \in {"distance", "rating"} |->
                           IF f = "distance" THEN Num(1) ELSE Num(2)]}
    /\ start \in {"A", "B", "Z", Surrogate}
    /\ pc = "query"
    /\ hours_str = NoHours
    /\ opened = Pending
    /\ weights = NoWeights
    /\ EateryIdle
    /\ QueryIdle
    /\ resp = NoResponse
    /\ FsIdle
    /\ io = NoIo
    /\ graph = EmptyGraph
    /\ goal = ""
    /\ algorithm = ""
    /\ frontier = {}
    /\ visited = {}
    /\ nodes_expanded = 0
    /\ max_frontier_size = 0
    /\ ret = NoResult
    /\ results = [ucs |-> NoResult, astar |-> NoResult]
    /\ FopIdle
    /\ StoreIdle

QueryNext ==
    \/ FindOptimalPath
    \/ GetTopEateries
    \/ CompareStart
    \/ CompareNext
    \/ CompareReturn
    \/ FopStart
    \/ FopTry
    \/ SearchCall
    \/ SearchLoop
    \/ FopAfter

SpecQuery == QueryInit /\ [][QueryNext]_vars

SearchNext ==
    \/ SearchCall
    \/ SearchLoop
    \/ UcsReturned
    \/ AStarReturned

SpecSearch == SearchInit /\ [][SearchNext]_vars

\* ------------------------------------------------- shortest-path costs
\* The cheapest cost from s to every node reachable from it, by relaxing
\* every adjacency entry as often as there are nodes.
RelaxOnce(g, d) ==
    LET reach == DOMAIN d \cup UNION {Neighbors(g, u) : u \in DOMAIN d}
    IN [n \in reach |->
          SetMin((IF n \in DOMAIN d THEN {d[n]} ELSE {}) \cup
                 {d[u] + Adj(g, u)[n] : u \in {u \in DOMAIN d : n \in Neighbors(g, u)}})]

RECURSIVE Relaxed(_, _, _)
Relaxed(g, d, k) == IF k = 0 THEN d ELSE Relaxed(g, RelaxOnce(g, d), k - 1)

Dist(g, s) == Relaxed(g, [n \in {s} |-> 0], Cardinality(DOMAIN g.nodes))

HasPath(g, s, t) == t \in DOMAIN Dist(g, s)

MinCost(g, s, t) == Dist(g, s)[t]

PathCost(g, path) ==
    LET RECURSIVE Sum(_)
        Sum(i) == IF i < 2 THEN 0 ELSE Sum(i - 1) + Adj(g, path[i - 1])[path[i]]
    IN Sum(Len(path))

StraightLine(g, n, m) ==
    haversine(g.nodes[n][1], g.nodes[n][2], g.nodes[m][1], g.nodes[m][2])

\* Every edge has the same cost.
UniformCosts(g) ==
    \A n \in DOMAIN g.edges, m \in DOMAIN g.edges :
        \A x \in DOMAIN g.edges[n], y \in DOMAIN g.edges[m] :
            g.edges[n][x] = g.edges[m][y]

\* The straight-line distance to t never exceeds the true remaining cost.
Admissible(g, t) ==
    \A n \in DOMAIN g.nodes :
        HasPath(g, n, t) => StraightLine(g, n, t) <= MinCost(g, n, t)

\* Every edge is at least as long as the straight line between its ends.
EdgesAtLeastStraightLine(g) ==
    \A n \in DOMAIN g.edges :
        \A m \in DOMAIN g.edges[n] : StraightLine(g, n, m) <= g.edges[n][m]

BothReturned == pc = "done"

C3_AStarFirstPopOptimal ==
    (/\ pc = "returned"
     /\ algorithm = "astar"
     /\ ret.error = ""
     /\ EdgesAtLeastStraightLine(graph))
    => ret.cost = Fin(MinCost(graph, start, goal))

\* C3 witness: a_star_search finalized the goal on such a graph by a path of
\* three nodes or more, with a non-zero heuristic at the start, while a node
\* with a non-zero heuristic was never expanded.
C3_Witness ==
    /\ pc = "returned"
    /\ algorithm = "astar"
    /\ ret.error = ""
    /\ EdgesAtLeastStraightLine(graph)
    /\ Len(ret.path) >= 3
    /\ StraightLine(graph, start, goal) > 0
    /\ \E n \in DOMAIN graph.nodes \ visited : StraightLine(graph, n, goal) > 0

\* C5: a successful result of either search is a well-formed path: it starts
\* at start, ends at goal, follows edges of the graph, repeats no node, and
\* the returned cost is the sum of the weights along it.
C5_SuccessIsWellFormedPath ==
    (pc = "returned" /\ ret.error = "")
    => /\ Len(ret.path) >= 1
       /\ ret.path[1] = start
       /\ ret.path[Len(ret.path)] = goal
       /\ \A i \in 2..Len(ret.path) : ret.path[i] \in Neighbors(graph, ret.path[i - 1])
       /\ \A i \in 1..Len(ret.path), j \in 1..Len(ret.path) :
             i # j => ret.path[i] # ret.path[j]
       /\ ret.cost = Fin(PathCost(graph, ret.path))

\* C5 witness: a_star_search returned a path of four nodes whose edges do not
\* all weigh the same.
C5_Witness ==
    /\ pc = "returned"
    /\ algorithm = "astar"
    /\ ret.error = ""
    /\ Len(ret.path) = 4
    /\ Adj(graph, ret.path[1])[ret.path[2]] # Adj(graph, ret.path[2])[ret.path[3]]

\* The candidates of the scores dict, and those with a path from start.
Candidates == {scores[i].id : i \in 1..Len(scores)}

ScoreOf(id) == scores[CHOOSE i \in 1..Len(scores) : scores[i].id = id].score

ReachableCandidates == {c \in Candidates : HasPath(graph, start, c)}

NoReachableError == "No reachable eateries found among top candidates"

\* C4: with the start in the graph, algorithm ucs or astar and a non-empty
\* scores dict, find_optimal_path tries the candidates by descending score
\* and returns the first with a path: the goal is reachable, every candidate
\* tried before it was unreachable and scored at least as high, no reachable
\* candidate scores strictly higher, and the "no reachable eateries" error is
\* returned exactly when no candidate is reachable.
C4_FirstReachableByScore ==
    (/\ pc = "fop_done"
     /\ start \in DOMAIN graph.nodes
     /\ algorithm \in {"ucs", "astar"}
     /\ scores # << >>)
    => /\ fop.error \in {"", NoReachableError}
       /\ (fop.error = NoReachableError) <=> (ReachableCandidates = {})
       /\ fop.error = "" =>
             /\ fop.goal \in ReachableCandidates
             /\ fop.goal_score = ScoreOf(fop.goal)
             /\ fop.path[1] = start /\ fop.path[Len(fop.path)] = fop.goal
             /\ \A c \in ReachableCandidates : ScoreOf(c) <= fop.goal_score
             /\ \A j \in 1..(idx - 1) :
                   /\ sorted_eateries[j].id \notin ReachableCandidates
                   /\ sorted_eateries[j].score >= fop.goal_score

\* C4 witness: find_optimal_path returned its second or a later candidate,
\* while a reachable candidate of a strictly lower score was left untried.
C4_Witness ==
    /\ pc = "fop_done"
    /\ fop.error = ""
    /\ idx >= 2
    /\ sorted_eateries[1].score > fop.goal_score
    /\ \E c \in ReachableCandidates : ScoreOf(c) < fop.goal_score

\* ------------------------------------------------- graph store properties
\* The adjacency list of node n in graph g, or that it has none.
ListOf(g, n) ==
    IF n \in DOMAIN g.edges THEN [has |-> TRUE, list |-> g.edges[n]]
    ELSE [has |-> FALSE, list |-> << >>]

\* g has an entry a -> b or b -> a.
Linked(g, a, b) ==
    \/ a \in DOMAIN g.edges /\ b \in DOMAIN g.edges[a]
    \/ b \in DOMAIN g.edges /\ a \in DOMAIN g.edges[b]

\* remove_edge(a, b) has just run, right after an add_edge(a, b, cost) with
\* both endpoints present, a # b and cost > 0.
RoundTrip == last.op = "remove_edge" /\ last.paired

Restored ==
    /\ ListOf(graph, last.id) = ListOf(last.base, last.id)
    /\ ListOf(graph, last.b) = ListOf(last.base, last.b)

\* C6 as stated: after add_edge(a, b, cost) and then remove_edge(a, b), the
\* adjacency lists of a and b are what they were before the add_edge, also
\* when an edge between a and b existed before.
C6_Original_RoundTripAlways == RoundTrip => Restored

\* C6: after a valid add_edge(a, b, cost) and then remove_edge(a, b), the
\* adjacency lists of a and b are what they were before the add_edge, provided
\* that neither had an entry for the other before the add_edge.
C6_RoundTripWhenNotLinked ==
    (RoundTrip /\ ~Linked(last.base, last.id, last.b)) => Restored

\* The round trip has been made between two nodes that were not linked, and
\* the remove_edge did remove the edge that the add_edge had put there.
C6_Witness ==
    /\ RoundTrip
    /\ ~Linked(last.base, last.id, last.b)
    /\ Linked(last.pre, last.id, last.b)
    /\ last.msg = "Edge removed successfully"
    /\ DOMAIN last.base.edges[last.id] # {}

Removed == last.op = "remove_node" /\ last.msg = "Node removed successfully"

\* C7: after remove_node(id) has succeeded, id is not in nodes, has no
\* adjacency list and is in no adjacency list; the other nodes have the
\* coordinates they had, and the entries between two other nodes are the
\* ones there were, with their weights.
C7_RemoveNodeCascades ==
    Removed =>
        /\ last.id \notin DOMAIN graph.nodes
        /\ last.id \notin DOMAIN graph.edges
        /\ \A n \in DOMAIN graph.edges : last.id \notin DOMAIN graph.edges[n]
        /\ DOMAIN graph.nodes = DOMAIN last.pre.nodes \ {last.id}
        /\ \A n \in DOMAIN graph.nodes : graph.nodes[n] = last.pre.nodes[n]
        /\ DOMAIN graph.edges = DOMAIN last.pre.edges \ {last.id}
        /\ \A n \in DOMAIN graph.edges :
              /\ DOMAIN graph.edges[n] = DOMAIN last.pre.edges[n] \ {last.id}
              /\ \A m \in DOMAIN graph.edges[n] :
                    graph.edges[n][m] = last.pre.edges[n][m]

\* A node has been removed that had an adjacency list and was in the list of
\* another node, while two other nodes were linked.
C7_Witness ==
    /\ Removed
    /\ last.id \in DOMAIN last.pre.edges
    /\ \E n \in DOMAIN last.pre.edges : n # last.id /\ last.id \in DOMAIN last.pre.edges[n]
    /\ \E n \in DOMAIN graph.edges : DOMAIN graph.edges[n] # {}

\* The data-model invariant of a graph in memory: adjacency symmetric with
\* equal weights, no self-loops, every node named in edges is in nodes, all
\* weights positive.
DataModelInvariant(g) ==
    /\ DOMAIN g.edges \subseteq DOMAIN g.nodes
    /\ \A a \in DOMAIN g.edges : \A b \in DOMAIN g.edges[a] :
          /\ b \in DOMAIN g.nodes
          /\ b # a
          /\ g.edges[a][b] > 0
          /\ b \in DOMAIN g.edges
          /\ a \in DOMAIN g.edges[b]
          /\ g.edges[b][a] = g.edges[a][b]

\* C8 as stated: a call of add_node, add_edge, remove_node or remove_edge on
\* a graph that satisfies the data-model invariant, successful or rejected,
\* leaves a graph that satisfies it (hence so does every sequence of calls).
C8_MutationsKeepInvariant ==
    [][DataModelInvariant(graph) => DataModelInvariant(graph')]_vars

\* add_node(id, lat, lng) has just run.
Added == last.op = "add_node"

OutOfRange(lat, lng) ==
    ~(-90 <= Float(lat) /\ Float(lat) <= 90 /\ -180 <= Float(lng) /\ Float(lng) <= 180)

\* add_node failed and left nodes and edges as they were.
AddFailed == graph = last.pre /\ last.msg # "Node added successfully"

\* add_node inserted the node with the coordinates given, an empty adjacency
\* list, and changed nothing else.
AddInserted ==
    /\ ~last.raised
    /\ last.msg = "Node added successfully"
    /\ DOMAIN graph.nodes = DOMAIN last.pre.nodes \cup {last.id}
    /\ graph.nodes[last.id] = <<Float(last.x), Float(last.y)>>
    /\ \A n \in DOMAIN last.pre.nodes : graph.nodes[n] = last.pre.nodes[n]
    /\ DOMAIN graph.edges = DOMAIN last.pre.edges \cup {last.id}
    /\ graph.edges[last.id] = << >>
    /\ \A n \in DOMAIN last.pre.edges : graph.edges[n] = last.pre.edges[n]

\* The cases in which C10 says add_node fails: the id is empty or no string,
\* or present already, or a coordinate is no number or out of range.
StatedFailure ==
    \/ last.id = "" \/ last.id = NonStringId
    \/ last.id \in DOMAIN last.pre.nodes
    \/ ~FloatOk(last.x) \/ ~FloatOk(last.y)
    \/ OutOfRange(last.x, last.y)

\* C10 as stated: add_node fails, nodes and edges as before, when the id is
\* empty or not a non-empty string, or present already, or the latitude or
\* longitude is out of range or not a number; in every other case it inserts
\* the node.
C10_Original_AddNodeCases ==
    Added => IF StatedFailure THEN AddFailed ELSE AddInserted

\* C10: add_node fails, nodes and edges as before, when the id is empty, only
\* white space or no string, or present already, or the latitude or longitude
\* is out of range or not a number; in every other case it inserts the node
\* with the coordinates given and an empty adjacency list and changes nothing
\* else.
C10_AddNodeCases ==
    Added => IF StatedFailure \/ last.id = " " THEN AddFailed ELSE AddInserted

\* A node has been inserted at a corner of the coordinate range, given as a
\* numeric string, into a graph that had a node and an edge.
C10_Witness ==
    /\ Added
    /\ AddInserted
    /\ last.x.t = "str"
    /\ Float(last.x) = 90
    /\ Float(last.y) = -180
    /\ \E n \in DOMAIN last.pre.edges : DOMAIN last.pre.edges[n] # {}

\* ------------------------------------------------- persistence properties
\* The parts of the data-model invariant, for data as read or handed over:
\* the values are taken as float() takes them.
WellShaped(d) ==
    /\ d.shape = "graph"
    /\ \A n \in DOMAIN d.nodes :
          /\ Len(d.nodes[n]) = 2
          /\ FloatOk(d.nodes[n][1]) /\ FloatOk(d.nodes[n][2])
          /\ ~OutOfRange(d.nodes[n][1], d.nodes[n][2])

NoDangling(d) ==
    /\ DOMAIN d.edges \subseteq DOMAIN d.nodes
    /\ \A a \in DOMAIN d.edges : DOMAIN d.edges[a] \subseteq DOMAIN d.nodes

NoSelfLoops(d) == \A a \in DOMAIN d.edges : a \notin DOMAIN d.edges[a]

PositiveWeights(d) ==
    \A a \in DOMAIN d.edges : \A b \in DOMAIN d.edges[a] :
        FloatOk(d.edges[a][b]) /\ Float(d.edges[a][b]) > 0

Symmetric(d) ==
    \A a \in DOMAIN d.edges : \A b \in DOMAIN d.edges[a] :
        /\ b \in DOMAIN d.edges
        /\ a \in DOMAIN d.edges[b]
        /\ Float(d.edges[b][a]) = Float(d.edges[a][b])

CheckedInvariant(d) ==
    WellShaped(d) /\ NoDangling(d) /\ NoSelfLoops(d) /\ PositiveWeights(d)

WholeInvariant(d) == CheckedInvariant(d) /\ Symmetric(d)

\* load_graph has read the file's data, or save_graph has been handed data.
Judged ==
    \/ io.op = "save_graph"
    \/ io.op = "load_graph" /\ io.error # "load_data"

ValidationError ==
    io.error = IF io.op = "load_graph" THEN "Graph validation failed"
               ELSE "Cannot save invalid graph"

EdgeAdded == last.op = "add_edge" /\ validate_graph(GraphData(last.pre)).valid

\* The arguments are those of an edge: both endpoints in nodes, a # b, the
\* cost a positive number.
EdgeArgsValid ==
    /\ last.id \in DOMAIN last.pre.nodes
    /\ last.b \in DOMAIN last.pre.nodes
    /\ last.id # last.b
    /\ FloatOk(last.x)
    /\ Float(last.x) > 0

\* The call succeeded: both directions hold the cost, and every other
\* adjacency entry is what it was.
EdgeSet ==
    /\ ~last.raised
    /\ last.msg = "Edge added successfully"
    /\ graph.nodes = last.pre.nodes
    /\ last.id \in DOMAIN graph.edges
    /\ last.b \in DOMAIN graph.edges
    /\ last.b \in DOMAIN graph.edges[last.id]
    /\ last.id \in DOMAIN graph.edges[last.b]
    /\ graph.edges[last.id][last.b] = Float(last.x)
    /\ graph.edges[last.b][last.id] = Float(last.x)
    /\ \A n \in DOMAIN last.pre.edges :
          /\ n \in DOMAIN graph.edges
          /\ \A m \in DOMAIN last.pre.edges[n] :
                (<<n, m>> \notin {<<last.id, last.b>>, <<last.b, last.id>>})
                    => (m \in DOMAIN graph.edges[n]
                        /\ graph.edges[n][m] = last.pre.edges[n][m])
    /\ \A n \in DOMAIN graph.edges : \A m \in DOMAIN graph.edges[n] :
          (<<n, m>> \notin {<<last.id, last.b>>, <<last.b, last.id>>})
              => (n \in DOMAIN last.pre.edges /\ m \in DOMAIN last.pre.edges[n])

\* C11 as stated: on a graph that validate_graph accepts, one with a node
\* without an entry in edges included, add_edge(a, b, cost) with both
\* endpoints in nodes, a # b and cost > 0 succeeds, sets edges[a][b] and
\* edges[b][a] to cost and leaves every other entry as it was; in every other
\* case it fails and leaves the graph as it was.
C11_AddEdgeCases ==
    EdgeAdded =>
        IF EdgeArgsValid THEN EdgeSet
        ELSE graph = last.pre /\ last.msg \in Refusals

\* ------------------------------------------------ unknown ids in mutations
\* The mutation function of the last request was called with an id that the
\* mapping it was given does not hold: remove_node of a node not in nodes;
\* add_edge or remove_edge with an endpoint not in nodes; remove_edge of two
\* nodes with no entry in either direction; remove_eatery of an eatery not in
\* the attributes.
UnknownId ==
    /\ resp.called
    /\ \/ /\ resp.handler = "api_remove_node"
          /\ resp.id \notin DOMAIN resp.pre.nodes
       \/ /\ resp.handler \in {"api_add_edge", "api_remove_edge"}
          /\ (resp.id \notin DOMAIN resp.pre.nodes \/ resp.b \notin DOMAIN resp.pre.nodes)
       \/ /\ resp.handler = "api_remove_edge"
          /\ resp.id \in DOMAIN resp.pre.nodes
          /\ resp.b \in DOMAIN resp.pre.nodes
          /\ ~Linked(resp.pre, resp.id, resp.b)
       \/ /\ resp.handler = "api_remove_eatery"
          /\ resp.id \notin DOMAIN resp.pre

\* C12: a mutation function called with an unknown id returns a failure
\* message and leaves the graph, or the attributes, as it was.
C12_UnknownIdIsNoOp ==
    UnknownId =>
        /\ ~resp.raised
        /\ resp.msg \in Refusals \cup AttrRefusals
        /\ resp.post = resp.pre

\* remove_edge has been called for two nodes between which there is no entry,
\* and was refused.
C12_Witness ==
    /\ UnknownId
    /\ resp.handler = "api_remove_edge"
    /\ resp.id \in DOMAIN resp.pre.nodes
    /\ resp.b \in DOMAIN resp.pre.nodes
    /\ resp.id # resp.b
    /\ resp.msg = "No edge between the nodes"

\* ------------------------------------------------- results of the handlers
\* The mutation function of the last request returned, and refused.
Refused == resp.msg \in Refusals \cup AttrRefusals

\* C17 as stated: the handler answers with an error status and does not save
\* if and only if the mutation function refused, and saves and answers with
\* success if and only if the mutation was applied, whatever the id.
C17_RefusalIsAnError ==
    (resp.called /\ ~resp.raised) =>
        /\ Refused => (resp.status >= 400 /\ ~resp.savecalled)
        /\ ~Refused => (resp.savecalled /\ (resp.saved => resp.status < 300))
\* ----------------------------------------------------- atomic persistence
\* Only one request is saving.
Single == proc[2].pc = "off"

\* The save of request p has begun.
Saving(p) == proc[p].pc \in {"write", "read", "replace", "return"} \/
             (proc[p].pc = "done" /\ proc[p].result # "load error")

\* C13: during a single save, a crash or a failure at any step leaves the
\* live file holding either the complete content it had before or the
\* complete new content, never a part of one; a save that returned an
\* error, and one whose read-back differed, has removed the temporary file
\* and has not replaced the live file; a save that returned True has.
C13_SingleSaveIsAtomic ==
    (Single /\ Saving(1)) =>
        /\ inodes[live] \in {proc[1].before, proc[1].data}
        /\ inodes[live].state = "complete"
        /\ proc[1].result = "ok" => inodes[live] = proc[1].data
        /\ proc[1].result = "error" => (temp = 0 /\ live = 1)
        /\ proc[1].msg = "Data validation failed after write" =>
               (proc[1].result = "error" /\ temp = 0 /\ live = 1)

\* A single save found on reading back that the file differs from the data.
C13_Witness ==
    /\ Single
    /\ proc[1].msg = "Data validation failed after write"
    /\ inodes[live] = proc[1].before

\* A single save crashed after it had written the temporary file.
C13_CrashWitness ==
    /\ Single
    /\ proc[1].result = "crashed"
    /\ temp # 0
    /\ inodes[temp] = proc[1].data

\* C14: whenever a save returns an error, the live file is what it was
\* before the call: the failing save has neither written to the file that
\* GRAPH_FILE names nor put another file in its place.
C14_FailedSaveLeavesLive ==
    \A p \in Procs : proc[p].result = "error" => ~proc[p].touched

\* The same of a save that runs alone.
C14_AloneFailedSaveLeavesLive ==
    (Single /\ proc[1].result = "error") =>
        (~proc[1].touched /\ inodes[live] = proc[1].before)

\* ------------------------------------------------------ concurrent requests
\* The live file holds a complete record that a request saved, or the one
\* it held at the start.
LiveIsSaved ==
    /\ inodes[live].state = "complete"
    /\ live # 1 => \E p \in Procs : Saving(p) /\ inodes[live] = proc[p].data

\* C16: under every interleaving of concurrent saves, the live file always
\* holds a complete record that some request passed to save, and a save that
\* reports failure has not changed the live file.
C16_ConcurrentSavesKeepLive ==
    /\ LiveIsSaved
    /\ \A p \in Procs :
          proc[p].result = "error" => (~proc[p].touched /\ inodes[live] # proc[p].data)

\* The live file is empty: a request renamed the temporary file after the
\* other one had opened it for writing.
LiveTruncated == inodes[live].state = "truncated"

\* A request reports failure and its data is in the live file.
FailedButLive ==
    \E p \in Procs : proc[p].result = "error" /\ inodes[live] = proc[p].data

\* Both requests have reported success.
BothOk == \A p \in Procs : proc[p].result = "ok"

\* Each request loaded the graph before the other replaced the file: the
\* graph it holds lacks the node of the other.
Overlapped ==
    /\ NodeOf(2) \notin proc[1].data.ids
    /\ NodeOf(1) \notin proc[2].data.ids

\* C15: two requests that each load the graph, add a node and save can
\* interleave so that both report success while the file holds the node of
\* only one of them: the file is what the last one saved, and that is the
\* graph it loaded with its own node.
C15_LostUpdate ==
    BothOk =>
        /\ inodes[live] \in {proc[1].data, proc[2].data}
        /\ Overlapped =>
               Cardinality(inodes[live].ids \cap {NodeOf(1), NodeOf(2)}) = 1

\* Both requests reported success and the node of one of them is lost.
C15_Witness ==
    /\ BothOk
    /\ Overlapped
    /\ \E p \in Procs : NodeOf(p) \notin inodes[live].ids

\* ---------------------------------------------------------- opening hours
\* The hours string is two pieces "hh:mm" with valid 24-hour times.
WellFormed == hours_str.k = "str" /\ Len(hours_str.parts) = 2 /\
              \A i \in 1..2 : Parses(hours_str.parts[i])

\* Seconds since midnight.
Clock(t) == 3600 * t.h + 60 * t.m + t.s

OpenAt == Clock(strptime(hours_str.parts[1]))

CloseAt == Clock(strptime(hours_str.parts[2]))

\* C18: for an hours string hh:mm-hh:mm with valid times, is_open answers
\* open exactly when close < open and (now >= open or now <= close), or
\* close >= open and open <= now <= close.
C18_WindowFormula ==
    (opened.done /\ WellFormed) =>
        (opened.v <=>
            \/ CloseAt < OpenAt /\ (Clock(now) >= OpenAt \/ Clock(now) <= CloseAt)
            \/ CloseAt >= OpenAt /\ OpenAt <= Clock(now) /\ Clock(now) <= CloseAt)

\* "22:00-02:00" at 01:00 is open.
C18_Witness ==
    /\ hours_str = HoursString(<<Digits(22, 0), Digits(2, 0)>>)
    /\ now = Time(1, 0, 0)
    /\ opened = Returned(TRUE)

\* The string is not of the form hh:mm-hh:mm: the number of pieces is not
\* two, or a piece is text, or an hour or minute is out of range.
Malformed == hours_str.k = "str" /\ ~WellFormed

\* C19: is_open answers open for an empty or non-string value, for "24/7"
\* and for every string that does not parse as hh:mm-hh:mm; it answers
\* closed only for a well-formed window that excludes the current time.
C19_FailOpen ==
    opened.done =>
        /\ (hours_str.k # "str" \/ Malformed) => opened.v
        /\ ~opened.v =>
               /\ WellFormed
               /\ IF CloseAt < OpenAt
                  THEN CloseAt < Clock(now) /\ Clock(now) < OpenAt
                  ELSE Clock(now) < OpenAt \/ CloseAt < Clock(now)

\* A string with an hour out of range, at a time outside the window it
\* would otherwise give, is open.
C19_Witness ==
    /\ hours_str = HoursString(<<Digits(24, 0), Digits(2, 0)>>)
    /\ now = Time(9, 0, 0)
    /\ opened = Returned(TRUE)

\* ------------------------------------------------------ preference weights
\* The sum of the weights returned, in the unit of the vector.
WeightSum == SumOf(weights.v.w)

\* C20: for a rank mapping with a valid entry the weights returned, rounded
\* to 4 decimals, sum to 1.0; for an empty mapping or one without a valid
\* entry the result is the default weight vector, which sums to 1.0.
C20_WeightsSumToOne ==
    weights.done =>
        /\ WeightSum = weights.v.unit
        /\ DOMAIN ValidRanks(rank_dict) = {} <=> weights.v = DEFAULT_WEIGHTS

\* What holds instead: the sum is off by at most half a ten-thousandth for
\* each weight, and the default vector is returned as claimed.
WeightsWithinRounding ==
    weights.done =>
        /\ 2 * (WeightSum - weights.v.unit) <= Cardinality(DOMAIN weights.v.w)
        /\ 2 * (weights.v.unit - WeightSum) <= Cardinality(DOMAIN weights.v.w)
        /\ DOMAIN ValidRanks(rank_dict) = {} <=> weights.v = DEFAULT_WEIGHTS

\* Three factors of the same rank: 0.3333 each.
ThreeThirds ==
    /\ weights.done
    /\ Cardinality(DOMAIN weights.v.w) = 3
    /\ \A f \in DOMAIN weights.v.w : weights.v.w[f] = 3333

\* The default vector came back for a mapping that is not empty.
DefaultForInvalid ==
    /\ weights.done
    /\ rank_dict # << >>
    /\ weights.v = DEFAULT_WEIGHTS

\* The entries the claim keeps: a known factor whose rank is a positive
\* integer (also written as a string of digits, or true).
PositiveIntegerRanks ==
    {f \in DOMAIN rank_dict \cap KNOWN_FACTORS :
        rank_dict[f].t \in {"num", "str", "bool"} /\ rank_dict[f].v > 0}

\* C21: convert_ranks_to_weights keeps exactly the entries of a known
\* factor with a positive integer rank; every kept factor has a weight
\* above zero, and a factor of lower rank never a smaller weight than one of
\* higher rank.
C21_KeptRanks ==
    (weights.done /\ PositiveIntegerRanks # {}) =>
        /\ DOMAIN weights.v.w = PositiveIntegerRanks
        /\ \A f \in DOMAIN weights.v.w : weights.v.w[f] > 0
        /\ \A f, g \in DOMAIN weights.v.w :
              rank_dict[f].v < rank_dict[g].v => weights.v.w[f] >= weights.v.w[g]

\* The same without the ranks that are no integers and without the weights
\* that round to zero.
KeptRanksOfIntegers ==
    (weights.done /\ PositiveIntegerRanks # {}
         /\ \A f \in DOMAIN rank_dict : rank_dict[f].t # "real") =>
        /\ DOMAIN weights.v.w = PositiveIntegerRanks
        /\ \A f \in DOMAIN weights.v.w :
              weights.v.w[f] > 0 \/ rank_dict[f].v = 30000
        /\ \A f, g \in DOMAIN weights.v.w :
              rank_dict[f].v < rank_dict[g].v => weights.v.w[f] >= weights.v.w[g]

\* A rank of 2.5 was kept as the rank 2.
FractionKept ==
    /\ weights.done
    /\ weights.v.unit = 10000
    /\ \E f \in DOMAIN weights.v.w : rank_dict[f] = Real(2)


\* ---------------------------------------------------------- failed searches
\* The search ended without finalizing the goal: the pre-check found it
\* unreachable, or the frontier was exhausted.
NoPath == ret.error \in {"No path exists from start to goal", "No path exists"}

C23_Original_NoPathCostsZero ==
    (pc = "returned" /\ NoPath) => (ret.cost = Fin(0) /\ ret.path = << >>)

\* C23: a search that ends without finalizing the goal returns a 'no path'
\* failure whose path is empty and whose cost is infinite (not zero).
C23_NoPathCostsInfinity ==
    (pc = "returned" /\ NoPath) => (ret.cost.inf /\ ret.path = << >>)

\* A search from a start in the graph to a goal in the graph that no path
\* leads to has returned.
C23_Witness ==
    /\ pc = "returned"
    /\ NoPath
    /\ start \in DOMAIN graph.nodes
    /\ goal \in DOMAIN graph.nodes
    /\ ~check_connectivity(graph, start, goal)

\* The frontier is never exhausted: the pre-check has let the search begin
\* only where the goal can be reached.
FrontierNeverExhausted == ret.error # "No path exists"


\* ------------------------------------------------------- the best-first loop
\* The node a frontier entry ends in.
EndOf(e) == e.path[Len(e.path)]

\* The entries that a pass through the loop has pushed.
NewEntries == frontier' \ frontier

InLoop == pc = "loop" /\ frontier # {}

\* Every pushed entry is strictly shorter than every entry for its node
\* that the frontier holds already.
PushOnlyShorter ==
    InLoop => \A e \in NewEntries : \A o \in frontier :
                  EndOf(o) = EndOf(e) => e.g < o.g

\* A pass pushes one entry for every neighbour of the popped node that is
\* not finalized, shorter or not.
PushEveryLiveNeighbor ==
    InLoop => /\ \A e \in NewEntries : EndOf(e) \notin visited'
              /\ (pc' = "loop" /\ EndOf(HeapPop(frontier)) \notin visited) =>
                    {EndOf(e) : e \in NewEntries} =
                        Neighbors(graph, EndOf(HeapPop(frontier))) \ visited'

\* A node is finalized at most once: the pop of an entry for a finalized
\* node changes nothing but the frontier; any other pop finalizes one node.
FinalizedOnce ==
    InLoop => LET current == EndOf(HeapPop(frontier))
              IN IF current \in visited
                 THEN /\ visited' = visited
                      /\ nodes_expanded' = nodes_expanded
                      /\ frontier' = frontier \ {HeapPop(frontier)}
                 ELSE /\ visited' = visited \cup {current}
                      /\ nodes_expanded' = nodes_expanded + 1

\* nodes_expanded is the number of finalized nodes, at most the number of
\* nodes of the graph.
ExpandedCountsFinalized ==
    pc = "loop" => /\ nodes_expanded = Cardinality(visited)
                   /\ visited \subseteq DOMAIN graph.nodes
                   /\ nodes_expanded <= Cardinality(DOMAIN graph.nodes)

C26_Original_PushOnlyShorter ==
    [][PushOnlyShorter /\ FinalizedOnce]_vars /\ []ExpandedCountsFinalized

\* C26: in the loop of ucs_search and a_star_search an entry is pushed for
\* every neighbour that is not finalized (whether or not its path is
\* shorter than those already in the frontier); each node is finalized at
\* most once, later entries for it are popped and dropped; nodes_expanded is
\* the number of finalized nodes and never exceeds the number of nodes.
C26_LoopDiscipline ==
    [][PushEveryLiveNeighbor /\ FinalizedOnce]_vars /\ []ExpandedCountsFinalized

\* The frontier holds an entry for a node next to a cheaper one for the
\* same node, and the node of the entry to be popped is finalized already.
C26_Witness ==
    /\ InLoop
    /\ EndOf(HeapPop(frontier)) \in visited
    /\ \E e \in frontier, o \in frontier : EndOf(e) = EndOf(o) /\ o.g < e.g


\* ---------------------------------------------------------------- termination
\* A search is started for the candidate at idx only, and idx moves on by
\* one after a failed search: at most one search per scored candidate.
OneSearchPerCandidate ==
    /\ pc = "fop_loop" /\ pc' = "call" =>
          (idx \in 1..Len(sorted_eateries) /\ goal' = sorted_eateries[idx].id)
    /\ idx' \in {idx, idx + 1}
    /\ idx' = idx + 1 => (pc \in {"fop_start", "returned"})

\* C28: on every graph, also a dense one of equal weights, each search that
\* find_optimal_path starts returns, and find_optimal_path ends after at
\* most one search per scored candidate.
C28_Terminates ==
    /\ (pc = "call") ~> (pc = "returned")
    /\ <>(pc = "fop_done")
    /\ [][OneSearchPerCandidate]_vars

\* find_optimal_path has ended with a path after a failed search and one
\* in which the frontier held a second entry for the goal.
C28_Witness ==
    /\ pc = "fop_done"
    /\ fop.error = ""
    /\ idx >= 2
    /\ \E e \in frontier : EndOf(e) = fop.goal


\* ------------------------------------------------------------------ C24
\* What the flag values stand for: a boolean true, a number that is not
\* zero (an integer, or one with a fraction), one of the strings true, yes,
\* 1, y, t in any letter case.
TruthyFlag(value) ==
    \/ value.t = "bool" /\ value.v = 1
    \/ value.t = "num" /\ value.v # 0
    \/ value.t = "real"
    \/ value.t = "str" /\ value.v = 1
    \/ value.t = "text" /\ Lower(value.v) \in {"true", "yes", "1", "y", "t"}

\* The last call gave one amenity flag.
OneFlag ==
    /\ last_update.done
    /\ last_update.new_attrs.dict
    /\ Len(last_update.new_attrs.items) = 1
    /\ last_update.new_attrs.items[1][1] \in AmenityKeys

\* Every amenity flag that the dict holds is the integer 0 or 1.
StoredFlagsAreBits ==
    \A e \in DOMAIN eateries : \A k \in DOMAIN eateries[e] \cap AmenityKeys :
        eateries[e][k] \in {Num(0), Num(1)}

\* C24: update_eatery stores an amenity flag as 0 or 1: after a call that
\* gives one flag, the flag stored for the eatery is 1 when the value given
\* is a boolean true, a non-zero number (integer or real) or one of the
\* strings true/yes/1/y/t in any letter case, and 0 for every other value; and
\* after any sequence of calls every stored amenity flag is 0 or 1.
C24_FlagCoercion ==
    /\ StoredFlagsAreBits
    /\ OneFlag =>
          LET item == last_update.new_attrs.items[1]
          IN eateries[last_update.eatery_id][item[1]]
                = Num(IF TruthyFlag(item[2]) THEN 1 ELSE 0)

\* The same with the numbers that are no integers left out: what holds of
\* the loop of update_eatery.
FlagCoercionOfIntegers ==
    (OneFlag /\ last_update.new_attrs.items[1][2].t # "real") =>
        LET item == last_update.new_attrs.items[1]
        IN eateries[last_update.eatery_id][item[1]]
              = Num(IF TruthyFlag(item[2]) THEN 1 ELSE 0)

\* A call has given a flag the value 0.5 or 1.5.
RealFlagGiven ==
    OneFlag /\ last_update.new_attrs.items[1][2].t = "real"

\* ------------------------------------------------------------------ C29
\* The messages update_eatery returns when it rejects a rating or a price.
Rejections ==
    {"Invalid rating value", "Rating must be between 0-5",
     "Invalid price level", "Price level must be non-negative"}

\* The last request was an update that update_eatery rejected.
RejectedUpdate ==
    /\ resp.handler = "api_update_eatery"
    /\ resp.called
    /\ resp.msg \in Rejections

\* C29: when update_eatery rejects an update for its rating or its price,
\* the attributes dict is as it was before the call (no empty record for an
\* eatery that was absent, none of the other fields merged), and the
\* attributes file holds what it held before the request.
C29_RejectedUpdateChangesNothing ==
    RejectedUpdate =>
        /\ resp.post = resp.pre
        /\ AttrsOf(afile) = resp.pre

\* The same of the calls made one after another on one dict.
RejectedCallChangesNothing ==
    (last_update.done /\ last_update.msg \in Rejections) =>
        eateries = last_update.before

\* A rejected update whose dict went to save_attributes and replaced the file.
RejectedUpdateSaved ==
    RejectedUpdate /\ resp.saved /\ AttrsOf(afile) # resp.pre

\* ------------------------------------------------------------------ C27
\* The last request was to add an eatery node whose id neither file held.
NewEateryNode ==
    /\ resp.handler = "api_add_eatery_node"
    /\ resp.id # ""
    /\ resp.id \notin DOMAIN resp.pre.graph.nodes
    /\ resp.id \notin DOMAIN resp.pre.attributes

\* C27: after a request to add an eatery node, ended with success or with a
\* failure of add_eatery_node, save_graph or save_attributes, either the
\* graph file and the attributes file both hold the new id or neither does.
C27_BothOrNeither ==
    NewEateryNode =>
        (resp.id \in DOMAIN GraphOf(file).nodes <=> resp.id \in DOMAIN AttrsOf(afile))

\* The request ended with the node in the graph file and no record of the
\* eatery in the attributes file.
NodeWithoutEatery ==
    /\ NewEateryNode
    /\ resp.status = 500
    /\ resp.id \in DOMAIN GraphOf(file).nodes
    /\ resp.id \notin DOMAIN AttrsOf(afile)

\* The request succeeded: both files hold the new id.
EateryNodeAdded ==
    /\ NewEateryNode
    /\ resp.status = 201
    /\ resp.id \in DOMAIN GraphOf(file).nodes
    /\ resp.id \in DOMAIN AttrsOf(afile)

\* ------------------------------------------------------------------ C22
\* The hours are a window hh:mm-hh:mm of valid times that leaves out the
\* time t.
Excludes(hours, t) ==
    /\ hours.k = "str"
    /\ Len(hours.parts) = 2
    /\ \A i \in 1..2 : Parses(hours.parts[i])
    /\ LET open == Clock(strptime(hours.parts[1]))
           close == Clock(strptime(hours.parts[2]))
       IN IF close < open THEN close < Clock(t) /\ Clock(t) < open
          ELSE Clock(t) < open \/ close < Clock(t)

\* The eateries of the attributes file that are nodes of the graph file and
\* whose hours do not leave out the current time.
OpenGraphEateries ==
    {e \in DOMAIN afile.recs :
        /\ e \in DOMAIN file.nodes
        /\ ~("hours" \in DOMAIN afile.recs[e].items
               /\ Excludes(afile.recs[e].items["hours"], now))}

\* find_optimal_path has computed the scores.
Scored ==
    /\ pc \in {"fop_start", "fop_loop", "call", "loop", "returned"}
    /\ start \in DOMAIN graph.nodes

\* C22: compute_scores scores exactly the eateries that are nodes of the
\* graph and open now, and none when there is no such eatery; an eatery that
\* is no node of the graph or is closed now is never the goal of a search of
\* find_optimal_path, never the goal it returns, and never in the list of
\* get_top_eateries.
C22_OnlyOpenGraphEateries ==
    /\ Scored => {scores[i].id : i \in 1..Len(scores)} = OpenGraphEateries
    /\ pc \in {"call", "loop", "returned"} => goal \in OpenGraphEateries
    /\ (pc \in {"fop_done", "compare_done"} /\ fop.error = "") =>
            fop.goal \in OpenGraphEateries
    /\ top.kind = "list" =>
            \A i \in 1..Len(top.list) : top.list[i].id \in OpenGraphEateries
    /\ (top.kind = "list" \/ (pc = "fop_done" /\ fop.error = "")) =>
            OpenGraphEateries # {}

\* B is closed now and D is no node of the graph: find_optimal_path returns
\* C, the third eatery of the file.
C22_Witness ==
    /\ pc = "fop_done"
    /\ fop.error = ""
    /\ fop.goal = "C"
    /\ DOMAIN afile.recs = {"B", "C", "D"}
    /\ "hours" \in DOMAIN afile.recs["B"].items
    /\ now = Time(22, 0, 0)

\* No eatery is a node of the graph and open: the scores are empty and the
\* call ends with "No valid eateries found".
NoneScored ==
    /\ pc = "fop_done"
    /\ fop.error = "No valid eateries found"
    /\ DOMAIN afile.recs # {}
    /\ OpenGraphEateries = {}

\* ------------------------------------------------------------------ C25
\* C25: find_optimal_path, get_top_eateries and compare_algorithms never
\* raise: for every start node, algorithm, preference mapping and state of
\* the two files each call returns a success payload or an error dict.
C25_QueriesNeverRaise ==
    /\ ~fop.raised
    /\ top.kind \in {"pending", "list", "error"}
    /\ compared.at = "done" =>
          \/ compared.error # ""
          \/ \A e \in {compared.ucs, compared.astar} :
                (e.error = "") <=> (e.eatery # "" /\ e.path # << >>)

\* An exception leaves find_optimal_path only from the debug_log before its
\* try, for a start node that cannot be printed; and what
\* get_top_eateries returns is a list of eateries or an error dict unless a
\* file holds a JSON list with the element "error".
RaisesOnlyBeforeTry ==
    /\ fop.raised => ~Printable(start)
    /\ top.kind = "raw" => "error list" \in {file.shape, afile.shape}

\* find_optimal_path, called directly, ended with an exception.
FopRaised == pc = "fop_done" /\ compared.at = "off" /\ fop.raised

\* get_top_eateries returned the list that the file holds.
TopRaw == pc = "top_done" /\ top.kind = "raw"

====
